---- MODULE Spec2Model ----
(***************************************************************************)
(* Verification model of agent-ethan2: the telemetry EventBus, the retry   *)
(* policy and the async graph Scheduler.                                   *)
(*                                                                         *)
(* SpecBus   : EventBus.emit driven by arbitrary callers (two run ids).    *)
(* Spec      : one Scheduler.run over a small graph, with either an        *)
(*             InMemoryEventEmitter or an EventBus as event emitter.       *)
(***************************************************************************)
EXTENDS Integers, Sequences, FiniteSets, TLC

(***************************************************************************)
(* Bounds                                                                  *)
(***************************************************************************)
\* number of EventBus.emit calls explored by SpecBus
MaxEmits == 3
\* largest tokens_in + tokens_out carried by one llm.call in SpecBus
MaxTokens == 2
\* largest max_attempts of a retry policy
MaxAttempts == 3
\* largest number of consecutive retryable failures of one component operation
MaxFails == 3

(***************************************************************************)
(* Program constants and fixed inputs                                      *)
(***************************************************************************)
\* per_run_tokens = None
NoLimit == -1
\* payload without a sequence number (InMemoryEventEmitter adds none)
NoSequence == -1
\* Python values a component can put in its `route` output: a str, an int
\* or None
PyStr(text) == [type |-> "str", str |-> text, int |-> 0]
PyInt(i) == [type |-> "int", str |-> "", int |-> i]
None == [type |-> "NoneType", str |-> "", int |-> 0]
\* decimal digits, for str() of a small int
Digits == <<"0", "1", "2", "3", "4", "5", "6", "7", "8", "9">>
\* Python str() on such a value
Str(v) ==
    IF v.type = "NoneType" THEN "None"
    ELSE IF v.type = "int" THEN Digits[v.int + 1]
    ELSE v.str

RunIds == {"run-1", "run-2"}
Permissions == {"http"}
ComponentIds == {"cmp-llm", "cmp-router", "cmp-tool", "cmp-map", "cmp-b1", "cmp-b2"}
BusEventNames == {"node.start", "llm.call", "tool.call"}

RunId == "run-1"

(***************************************************************************)
(* The compiled GraphDefinition executed by Spec                           *)
(*   a(llm) -> r(router) -- x --> t(tool) -> e -> j(map)                   *)
(*                       \- default -> f -> p(parallel: b1, b2) -> a       *)
(*   t also lists j, so j is enqueued twice (fan-in); p -> a closes a      *)
(*   cycle; r.next_nodes lists both t and f as in the test graph.          *)
(***************************************************************************)
NodeIds == {"a", "r", "t", "f", "e", "j", "p", "b1", "b2"}
NoComponent == "no-component"
entrypoint == "a"

kind == [n \in NodeIds |->
    CASE n = "a" -> "llm"
      [] n = "r" -> "router"
      [] n = "t" -> "tool"
      [] n = "j" -> "map"
      [] n = "p" -> "parallel"
      [] n = "b1" -> "llm"
      [] OTHER -> "component"]

component_id == [n \in NodeIds |->
    CASE n = "a" -> "cmp-llm"
      [] n = "r" -> "cmp-router"
      [] n = "t" -> "cmp-tool"
      [] n = "j" -> "cmp-map"
      [] n = "b1" -> "cmp-b1"
      [] n = "b2" -> "cmp-b2"
      [] OTHER -> NoComponent]

next_nodes == [n \in NodeIds |->
    CASE n = "a" -> <<"r">>
      [] n = "r" -> <<"t", "f">>
      [] n = "t" -> <<"e", "j">>
      [] n = "e" -> <<"j">>
      [] n = "f" -> <<"p">>
      [] n = "p" -> <<"a">>
      [] OTHER -> <<>>]

\* config.branches of the parallel node
branches == <<"b1", "b2">>

\* requires_permissions of each component's config
requires_permissions == [n \in NodeIds |-> IF n = "t" THEN {"http"} ELSE {}]

\* usage.prompt_tokens + usage.completion_tokens reported by every llm result
UsageTokens == 2

\* declared output names of each node's component (component_meta.outputs)
output_names == [n \in NodeIds |->
    CASE n = "a" -> {"text"}
      [] n = "r" -> {"route"}
      [] n = "t" -> {"result"}
      [] n = "j" -> {"value"}
      [] n = "b1" -> {"text"}
      [] n = "b2" -> {"output"}
      [] OTHER -> {}]

\* values a router component may return in its route field
RouteValues == {PyStr("x"), PyStr("y"), PyInt(7), None}

VARIABLES
    \* ---- emitter state ----
    events,          \* records received by the sink / InMemoryEventEmitter.events
    bus_sequence,    \* EventBus._sequence : run_id -> next sequence number
    run_totals,      \* CostLimiter._run_totals : run_id -> accumulated tokens
    bus_permissions, \* allowed permissions of EventBus._permissions for cmp-tool
    per_run_tokens,  \* CostLimiter config per_run_tokens (NoLimit = None)
    bus_calls,       \* number of EventBus.emit calls made by SpecBus callers
    bus_raised,      \* error code raised by the last EventBus.emit ("" = returned)
    bus_last,        \* history: payload of the last EventBus.emit call
    sink_events,     \* exporter -> payloads its export() accepted, in order
    fallback,        \* EventBus._fallback: records of the exports that raised
    \* ---- definition and run arguments ----
    emitter_kind,    \* "memory" (InMemoryEventEmitter) or "bus" (EventBus)
    cancel_on_error, \* run(cancel_on_error=...)
    policies,        \* definition.policies: [retry, rate_limit, permissions]
    routes,          \* routes of the router node r
    graph_outputs,   \* definition.outputs: sequence of [key, node_id, output]
    map_config,      \* merged config of the map node: [collection, failure_mode]
    \* ---- run state ----
    pc,              \* position of the run coroutine
    pending,         \* _execute: pending list
    visited,         \* _execute: visited set
    node_states,     \* state.node_states: node id -> outputs (partial function)
    cancel_token,    \* CancelToken.cancelled
    cur,             \* node being run by _run_node
    frame,           \* caller of _invoke_component_spec: "node", "map", "parallel"
    target,          \* spec passed to _invoke_component_spec
    attempt,         \* RetryPolicy.execute: attempt counter
    script,          \* behaviour of the component during the current operation
    op_calls,        \* component invocations made by the current operation
    op_mark,         \* history: Len(events) when the current operation began
    on_error_calls,  \* history: on_error calls made by the current operation
    calls,           \* node id -> component invocations made in the run
    loop_index,      \* map iteration index / parallel branch index
    results,         \* map: results list; parallel: results dict
    errors,          \* map: errors list
    ret,             \* NodeRuntimeState handed between steps
    exc,             \* exception being propagated
    outcome,         \* what run() returned or raised
    par_config,      \* parallel node: mode, merge_policy, outputs of each branch
    par_pc,          \* position of _execute_parallel
    tasks,           \* branch -> state of its run_branch coroutine
    ready,           \* event loop: handles ready to run, in order
    waiter,          \* asyncio.wait: TRUE once its waiter future is set
    par_results,     \* results dict, as [branch, outputs] in insertion order
    par_log,         \* history: branch starts and completions, in order
    par_outcome,     \* what _execute_parallel returned or raised
    close_def,       \* a definition: component bound to each node, components with close()
    close_pc,        \* position of run() around its try/finally
    close_run,       \* number of the run() call, counted from 1
    close_queue,     \* closables _close_components has still to visit
    closed,          \* history: component -> runs in which its close() was invoked
    close_outcome,   \* how the try block of the current run ended
    delivered,       \* history: per run, what the try block ended with and what the caller got
    mask_fields,     \* MaskingEngine: the configured `fields`, as written
    mask_payload,    \* the payload handed to the first mask()
    masked,          \* history: the results of the successive mask() calls
    rl_config,       \* one rate limiter: type and parameters
    rl_now,          \* monotonic(), in ticks
    rl_limiter,      \* the limiter's fields: window_start, count, tokens, updated_at
    rl_callers,      \* caller -> position of its acquire(): pc, start of its sleep, wait_time
    rl_admitted,     \* history: caller -> when and in which window its acquire() returned
    rl_waits,        \* history: caller -> wait_time of its rate.limit.wait events
    rg_entry,        \* graph.entry of the document being normalized
    rg_connectivity, \* node id -> the targets of its `next`
    rg_warnings,     \* the nodes warned about with WARN_GRAPH_NODE_UNREACHABLE
    rg_outcome,      \* "pending", "ok", or the code of the IRNormalizationError
    hk_config,       \* one _invoke_component_spec call: the node's kind, limiters, hooks, policy
    hk_pc,           \* position of the call
    hk_log,          \* history: the steps performed, each with the number of its attempt
    hk_attempt,      \* RetryPolicy.execute: attempt
    hk_calls,        \* number of calls of attempt()
    hk_inputs,       \* inputs_payload of attempt()
    hk_outer_inputs, \* inputs_payload of _invoke_component_spec
    hk_contexts,     \* number of contexts built by build_component_context
    hk_exc,          \* the error raised by the last failed attempt
    hk_hook,         \* history: the calls of on_error with their arguments
    hk_result,       \* what _invoke_component_spec returned or raised
    df_config,       \* masking configuration and cost limit of the shared bus
    df_previous,     \* MaskingEngine._previous of the shared bus
    df_solo,         \* the bus that receives only the emits of RunId
    df_seen,         \* history: run -> path -> the last value an accepted event carried there
    df_last,         \* history: what the last emit on the shared bus did
    df_solo_last,    \* history: what that emit did on the bus of RunId alone, if RunId made it
    lp_next,         \* a graph: node -> its next_nodes (for the router: its routes' targets)
    lp_router,       \* the node of kind router, 0 = none
    lp_pending,      \* _execute: the list `pending`
    lp_visited,      \* _execute: the set `visited`
    lp_states,       \* the nodes that have an entry in state.node_states
    lp_order,        \* history: the nodes in the order _run_node was called for them
    lp_nulls,        \* history: <<n, m>> when n started while node.<m>.* resolved to None
    lp_finish        \* "" while the loop runs, then graph.finish's status or error code

emitVars == <<events, bus_sequence, run_totals>>
parVars == <<par_config, par_pc, tasks, ready, waiter, par_results, par_log, par_outcome>>
closeVars == <<close_def, close_pc, close_run, close_queue, closed, close_outcome, delivered>>
maskVars == <<mask_fields, mask_payload, masked>>
hookVars == <<hk_config, hk_pc, hk_log, hk_attempt, hk_calls, hk_inputs, hk_outer_inputs, hk_contexts,
             hk_exc, hk_hook, hk_result>>
reachVars == <<rg_entry, rg_connectivity, rg_warnings, rg_outcome>>
rateVars == <<rl_config, rl_now, rl_limiter, rl_callers, rl_admitted, rl_waits>>
diffVars == <<df_config, df_previous, df_solo, df_seen, df_last, df_solo_last>>
lpVars == <<lp_next, lp_router, lp_pending, lp_visited, lp_states, lp_order, lp_nulls, lp_finish>>
busVars == <<bus_permissions, per_run_tokens, bus_calls, bus_raised, bus_last, sink_events, fallback>>
cfgVars == <<emitter_kind, cancel_on_error, policies, routes, graph_outputs, map_config>>
loopVars == <<pending, visited, node_states>>
invokeVars == <<cur, frame, target, attempt, script, op_calls, op_mark, on_error_calls, calls, loop_index, results, errors, ret>>
runVars == <<pc, cancel_token, exc, outcome>>
vars == <<emitVars, busVars, parVars, closeVars, maskVars, rateVars, reachVars, hookVars, diffVars, lpVars, cfgVars, loopVars, invokeVars, runVars>>

(***************************************************************************)
(* Helpers                                                                 *)
(***************************************************************************)
\* dict.get(key, default)
Get(f, k, default) == IF k \in DOMAIN f THEN f[k] ELSE default

\* keyword payload of one emit call; NoSequence / "" / 0 / {} stand for absent keys
Payload(event, node_id) ==
    [event |-> event, run_id |-> RunId, sequence |-> NoSequence, node_id |-> node_id,
     attempt |-> 0, delay |-> 0, status |-> "", iteration |-> -1, component_id |-> "",
     tokens_in |-> 0, tokens_out |-> 0, required_permissions |-> {}]

(***************************************************************************)
(* policy/permissions.py, policy/cost.py                                   *)
(***************************************************************************)
\* PermissionManager.check_tool_permissions: the set `missing`; it raises
\* ERR_TOOL_PERMISSION_DENIED iff the set is not empty
check_tool_permissions(pm, cid, required) ==
    required \ (pm.default_allow \cup Get(pm.allow, cid, {}))

\* variant of record_llm_call that rejects a total that reaches the limit
record_llm_call_at_limit(totals, limit, run_id, tokens_in, tokens_out) ==
    LET total == tokens_in + tokens_out
        current == totals[run_id] + total
    IN  IF total <= 0
        THEN [raised |-> "", run_totals |-> totals]
        ELSE IF limit # NoLimit /\ current >= limit
        THEN [raised |-> "ERR_COST_LIMIT_EXCEEDED", run_totals |-> totals]
        ELSE [raised |-> "", run_totals |-> [totals EXCEPT ![run_id] = current]]

\* CostLimiter.record_llm_call: error raised ("" = none) and the new _run_totals
record_llm_call(totals, limit, run_id, tokens_in, tokens_out) ==
    LET total == tokens_in + tokens_out
        current == totals[run_id] + total
    IN  IF total <= 0
        THEN [raised |-> "", run_totals |-> totals]
        ELSE IF limit # NoLimit /\ current > limit
        THEN [raised |-> "ERR_COST_LIMIT_EXCEEDED", run_totals |-> totals]
        ELSE [raised |-> "", run_totals |-> [totals EXCEPT ![run_id] = current]]

(***************************************************************************)
(* telemetry/event_bus.py and runtime/events.py                            *)
(* An emitter state is [events, bus_sequence, run_totals, raised].         *)
(***************************************************************************)
EmitterState == [events |-> events, bus_sequence |-> bus_sequence,
                 run_totals |-> run_totals, raised |-> ""]

\* EventBus.emit
EventBus_emit(em, pm, limit, payload) ==
    LET run_id == payload.run_id
        sequence == em.bus_sequence[run_id]
        raw_payload == IF payload.sequence = NoSequence
                       THEN [payload EXCEPT !.sequence = sequence]
                       ELSE payload
        counted == [em EXCEPT !.bus_sequence[run_id] = sequence + 1]
        cid == IF payload.component_id # "" THEN payload.component_id ELSE payload.node_id
        cost == record_llm_call(em.run_totals, limit, run_id,
                                payload.tokens_in, payload.tokens_out)
    IN  IF payload.event = "tool.call"
           /\ check_tool_permissions(pm, cid, payload.required_permissions) # {}
        THEN [counted EXCEPT !.raised = "ERR_TOOL_PERMISSION_DENIED"]
        ELSE IF payload.event = "llm.call" /\ cost.raised # ""
        THEN [counted EXCEPT !.raised = cost.raised]
        ELSE [counted EXCEPT !.events = Append(em.events, raw_payload),
                             !.run_totals = IF payload.event = "llm.call"
                                            THEN cost.run_totals ELSE em.run_totals]

\* InMemoryEventEmitter.emit
InMemoryEventEmitter_emit(em, payload) ==
    [em EXCEPT !.events = Append(em.events, payload)]

\* _RunEventEmitter.emit on the emitter given to run(); an emitter that
\* already raised in this step stays as it is (the exception is propagating)
Emit(em, payload) ==
    IF em.raised # "" THEN em
    ELSE IF emitter_kind = "bus"
    THEN EventBus_emit(em, bus_permissions, per_run_tokens, payload)
    ELSE InMemoryEventEmitter_emit(em, payload)

SetEmitter(em) ==
    /\ events' = em.events
    /\ bus_sequence' = em.bus_sequence
    /\ run_totals' = em.run_totals

(***************************************************************************)
(* SpecBus: callers emitting through one EventBus                          *)
(***************************************************************************)
\* no parallel node is being executed
IdleParallel ==
    /\ par_config = [mode |-> "all", merge_policy |-> "overwrite", outputs |-> <<>>]
    /\ par_pc = "off"
    /\ tasks = <<>>
    /\ ready = <<>>
    /\ waiter = FALSE
    /\ par_results = <<>>
    /\ par_log = <<>>
    /\ par_outcome = [status |-> "none", code |-> "", outputs |-> <<>>]

\* no series of runs against one definition is modelled
IdleClose ==
    /\ close_def = [binding |-> <<>>, has_close |-> {}]
    /\ close_pc = "off"
    /\ close_run = 0
    /\ close_queue = <<>>
    /\ closed = <<>>
    /\ close_outcome = ""
    /\ delivered = <<>>

\* no masking engine is modelled
IdleMask ==
    /\ mask_fields = <<>>
    /\ mask_payload = <<>>
    /\ masked = <<>>

\* no rate limiter is modelled
IdleRate ==
    /\ rl_config = <<>>
    /\ rl_now = 0
    /\ rl_limiter = <<>>
    /\ rl_callers = <<>>
    /\ rl_admitted = <<>>
    /\ rl_waits = <<>>

\* no document is being normalized
IdleReach ==
    /\ rg_entry = 0
    /\ rg_connectivity = <<>>
    /\ rg_warnings = <<>>
    /\ rg_outcome = ""

\* no single invocation is modelled
IdleInvoke ==
    /\ hk_config = <<>>
    /\ hk_pc = ""
    /\ hk_log = <<>>
    /\ hk_attempt = 0
    /\ hk_calls = 0
    /\ hk_inputs = <<>>
    /\ hk_outer_inputs = <<>>
    /\ hk_contexts = 0
    /\ hk_exc = <<>>
    /\ hk_hook = <<>>
    /\ hk_result = <<>>

\* no pair of buses is modelled
IdleDiff ==
    /\ df_config = <<>>
    /\ df_previous = <<>>
    /\ df_solo = <<>>
    /\ df_seen = <<>>
    /\ df_last = <<>>
    /\ df_solo_last = <<>>

\* no main loop on a drawn graph is modelled
IdleLoop ==
    /\ lp_next = <<>>
    /\ lp_router = 0
    /\ lp_pending = <<>>
    /\ lp_visited = {}
    /\ lp_states = {}
    /\ lp_order = <<>>
    /\ lp_nulls = {}
    /\ lp_finish = ""

\* the registered exporters, in registration order
Exporters == <<"s1", "s2", "s3">>

ExporterSet == { Exporters[i] : i \in 1..Len(Exporters) }

\* no call made yet: nothing exported, _fallback empty
NoExports ==
    /\ bus_last = Payload("", "")
    /\ sink_events = [x \in ExporterSet |-> <<>>]
    /\ fallback = <<>>

\* variant of the exporter loop without the try/except: the first export
\* that raises ends the loop and the exception leaves emit
export_all_unguarded(sinks, fb, failing, masked_payload) ==
    LET first == IF \E i \in 1..Len(Exporters) : Exporters[i] \in failing
                 THEN CHOOSE i \in 1..Len(Exporters) :
                         /\ Exporters[i] \in failing
                         /\ \A j \in 1..(i - 1) : Exporters[j] \notin failing
                 ELSE Len(Exporters) + 1
    IN  [sink_events |-> [x \in ExporterSet |->
                            IF \E i \in 1..(first - 1) : Exporters[i] = x
                            THEN Append(sinks[x], masked_payload) ELSE sinks[x]],
         fallback |-> fb,
         raised |-> IF first <= Len(Exporters) THEN "Exception" ELSE ""]

\* EventBus.emit, lines 73-79: every exporter is called with the masked
\* payload, in registration order; an export that raises (the exporters in
\* `failing`) is caught and recorded in _fallback, and the loop goes on
export_all(sinks, fb, failing, masked_payload) ==
    LET F[i \in 0..Len(Exporters)] ==
            IF i = 0 THEN fb
            ELSE IF Exporters[i] \in failing
                 THEN Append(F[i - 1], [event |-> masked_payload.event,
                                        payload |-> masked_payload,
                                        error |-> Exporters[i]])
                 ELSE F[i - 1]
    IN  [sink_events |-> [x \in ExporterSet |->
                            IF x \in failing THEN sinks[x]
                            ELSE Append(sinks[x], masked_payload)],
         fallback |-> F[Len(Exporters)],
         raised |-> ""]

\* one call EventBus.emit(**payload) during which the exporters in
\* `failing` raise from export()
EmitCall(payload, failing) ==
    LET em == EventBus_emit(EmitterState, bus_permissions, per_run_tokens, payload)
        out == IF em.raised = ""
               THEN export_all(sink_events, fallback, failing, em.events[Len(em.events)])
               ELSE [sink_events |-> sink_events, fallback |-> fallback,
                     raised |-> em.raised]
    IN  /\ SetEmitter(em)
        /\ bus_raised' = out.raised
        /\ bus_last' = payload
        /\ sink_events' = out.sink_events
        /\ fallback' = out.fallback
        /\ bus_calls' = bus_calls + 1
        /\ UNCHANGED <<bus_permissions, per_run_tokens, parVars, closeVars, maskVars, rateVars, reachVars, hookVars, diffVars, lpVars, cfgVars, loopVars, invokeVars, runVars>>

PermissionConfigs ==
    { [default_allow |-> d, allow |-> ("cmp-tool" :> a)] :
        d \in SUBSET Permissions, a \in SUBSET Permissions }

IdleRun ==
    /\ emitter_kind = "bus"
    /\ cancel_on_error = TRUE
    /\ policies = [retry |-> [default |-> [strategy |-> "none", max_attempts |-> 0, interval |-> 0], overrides |-> <<>>],
                   rate_limit |-> <<>>,
                   permissions |-> [default_allow |-> {}, allow |-> <<>>]]
    /\ routes = <<>>
    /\ graph_outputs = <<>>
    /\ map_config = [collection |-> 0, failure_mode |-> "fail_fast"]
    /\ pc = "off"
    /\ pending = <<>>
    /\ visited = {}
    /\ node_states = <<>>
    /\ cancel_token = FALSE
    /\ cur = ""
    /\ frame = ""
    /\ target = ""
    /\ attempt = 0
    /\ script = [fails |-> 0, then |-> "ok"]
    /\ op_calls = 0
    /\ op_mark = 0
    /\ on_error_calls = 0
    /\ calls = [n \in NodeIds |-> 0]
    /\ loop_index = 0
    /\ results = <<>>
    /\ errors = <<>>
    /\ ret = <<>>
    /\ exc = [type |-> "none", code |-> "", retryable |-> FALSE, call |-> 0]
    /\ outcome = [status |-> "none", code |-> "", outputs |-> <<>>]

InitBus ==
    /\ events = <<>>
    /\ bus_sequence = [r \in RunIds |-> 0]
    /\ run_totals = [r \in RunIds |-> 0]
    /\ bus_permissions \in PermissionConfigs
    /\ per_run_tokens \in {NoLimit, MaxTokens}
    /\ bus_calls = 0
    /\ bus_raised = ""
    /\ NoExports
    /\ IdleParallel
    /\ IdleClose
    /\ IdleMask
    /\ IdleRate
    /\ IdleReach
    /\ IdleInvoke
    /\ IdleDiff
    /\ IdleLoop
    /\ IdleRun

\* one call EventBus.emit(event, run_id=..., ...) by any caller; every
\* export succeeds
BusEmit ==
    /\ bus_calls < MaxEmits
    /\ \E run_id \in RunIds, event \in BusEventNames,
          tokens_in \in 0..MaxTokens, tokens_out \in 0..1,
          required \in SUBSET Permissions :
          EmitCall([Payload(event, "n") EXCEPT
                        !.run_id = run_id,
                        !.component_id = IF event = "tool.call" THEN "cmp-tool" ELSE "",
                        !.tokens_in = IF event = "llm.call" THEN tokens_in ELSE 0,
                        !.tokens_out = IF event = "llm.call" THEN tokens_out ELSE 0,
                        !.required_permissions =
                            IF event = "tool.call" THEN required ELSE {}],
                   {})

NextBus == BusEmit

SpecBus == InitBus /\ [][NextBus]_vars

\* the sequence values of the events the sink received for one run, in order
SinkSequences(run_id) ==
    LET F[i \in 0..Len(events)] ==
            IF i = 0 THEN <<>>
            ELSE IF events[i].run_id = run_id
                 THEN Append(F[i - 1], events[i].sequence)
                 ELSE F[i - 1]
    IN  F[Len(events)]

\* C1: for every run the sequence values a sink receives are exactly
\* 0,1,2,... in order: none repeats and none is skipped
C1_SequenceContiguous ==
    \A run_id \in RunIds :
        LET sq == SinkSequences(run_id)
        IN  \A i \in 1..Len(sq) : sq[i] = i - 1

(***************************************************************************)
(* SpecCost: llm.call emissions through an EventBus with a CostLimiter     *)
(***************************************************************************)
MaxCostEmits == 3

InitCost ==
    /\ events = <<>>
    /\ bus_sequence = [r \in RunIds |-> 0]
    /\ run_totals = [r \in RunIds |-> 0]
    /\ bus_permissions = [default_allow |-> {}, allow |-> <<>>]
    /\ per_run_tokens \in {NoLimit} \cup 0..MaxTokens
    /\ bus_calls = 0
    /\ bus_raised = ""
    /\ NoExports
    /\ IdleParallel
    /\ IdleClose
    /\ IdleMask
    /\ IdleRate
    /\ IdleReach
    /\ IdleInvoke
    /\ IdleDiff
    /\ IdleLoop
    /\ IdleRun

\* one call EventBus.emit("llm.call", run_id=..., tokens_in=..., tokens_out=...)
CostEmit ==
    /\ bus_calls < MaxCostEmits
    /\ \E run_id \in RunIds, tokens_in \in 0..MaxTokens, tokens_out \in 0..1 :
          EmitCall([Payload("llm.call", "n") EXCEPT
                        !.run_id = run_id,
                        !.tokens_in = tokens_in,
                        !.tokens_out = tokens_out],
                   {})

NextCost == CostEmit

SpecCost == InitCost /\ [][NextCost]_vars

\* the last emission was an llm.call rejected by the cost limiter
CostRejected == bus_raised = "ERR_COST_LIMIT_EXCEEDED"

\* C14: with per_run_tokens = L the total of a run never exceeds L; an
\* llm.call emission is rejected with ERR_COST_LIMIT_EXCEEDED exactly when
\* the run's total plus tokens_in plus tokens_out would exceed L; a rejected
\* emission leaves every total unchanged and reaches no sink, an accepted
\* one adds its tokens to the run's total and reaches every sink
C14_CostLimit ==
    /\ [](per_run_tokens # NoLimit =>
             \A r \in RunIds : run_totals[r] <= per_run_tokens)
    /\ [][(bus_calls' = bus_calls + 1 /\ per_run_tokens # NoLimit) =>
            LET r == bus_last'.run_id
                tokens == bus_last'.tokens_in + bus_last'.tokens_out
            IN  /\ CostRejected' <=> run_totals[r] + tokens > per_run_tokens
                /\ CostRejected' =>
                       /\ run_totals' = run_totals
                       /\ events' = events
                       /\ sink_events' = sink_events
                /\ ~CostRejected' =>
                       /\ run_totals' = [run_totals EXCEPT ![r] = @ + tokens]
                       /\ \A x \in ExporterSet :
                              Len(sink_events'[x]) = Len(sink_events[x]) + 1]_vars

\* a run at its limit had an emission rejected after one was accepted
C14_Witness ==
    /\ CostRejected
    /\ bus_last.event = "llm.call"
    /\ per_run_tokens # NoLimit
    /\ run_totals[bus_last.run_id] > 0
    /\ run_totals[bus_last.run_id] + bus_last.tokens_in + bus_last.tokens_out
           > per_run_tokens
    /\ events # <<>>

(***************************************************************************)
(* SpecExport: emissions through an EventBus some of whose exporters raise *)
(***************************************************************************)
MaxExports == 2

\* one call EventBus.emit during which any subset of the exporters raises
ExportEmit ==
    /\ bus_calls < MaxExports
    /\ \E run_id \in RunIds, event \in {"node.start", "llm.call"},
          failing \in SUBSET ExporterSet :
          EmitCall([Payload(event, "n") EXCEPT
                        !.run_id = run_id,
                        !.tokens_in = IF event = "llm.call" THEN MaxTokens ELSE 0],
                   failing)

NextExport == ExportEmit

SpecExport == InitCost /\ [][NextExport]_vars

\* the _fallback records of exporter x
FallbackOf(fb, x) == { i \in 1..Len(fb) : fb[i].error = x }

\* C20: an export that raises does not make emit raise; every exporter
\* either receives the event, with the payload and the sequence every other
\* exporter receives, or has exactly one new _fallback record holding that
\* payload; the only emit calls that raise are those a gate rejected, and
\* they reach no exporter and leave _fallback unchanged
C20_ExportFailureIsolated ==
    [][bus_calls' = bus_calls + 1 =>
        LET r == bus_last'.run_id
            gate == bus_last'.event = "llm.call"
                    /\ per_run_tokens # NoLimit
                    /\ run_totals[r] + bus_last'.tokens_in + bus_last'.tokens_out
                           > per_run_tokens
            sent == [bus_last' EXCEPT !.sequence = bus_sequence[r]]
        IN  /\ bus_raised' # "" <=> gate
            /\ gate => sink_events' = sink_events /\ fallback' = fallback
            /\ ~gate =>
                  /\ \A x \in ExporterSet :
                        \/ /\ sink_events'[x] = Append(sink_events[x], sent)
                           /\ FallbackOf(fallback', x) = FallbackOf(fallback, x)
                        \/ /\ sink_events'[x] = sink_events[x]
                           /\ \E i \in (Len(fallback) + 1)..Len(fallback') :
                                 /\ fallback'[i].payload = sent
                                 /\ FallbackOf(fallback', x)
                                       = FallbackOf(fallback, x) \cup {i}
                  /\ SubSeq(fallback', 1, Len(fallback)) = fallback
                  /\ \A i \in 1..Len(fallback') :
                        fallback'[i].error \in ExporterSet]_vars

\* the middle exporter raised on an event that the exporters before and
\* after it received, and emit returned
C20_Witness ==
    /\ bus_raised = ""
    /\ \E i \in 1..Len(fallback) :
          /\ fallback[i].error = Exporters[2]
          /\ \E j \in 1..Len(sink_events[Exporters[1]]) :
                sink_events[Exporters[1]][j] = fallback[i].payload
          /\ \E j \in 1..Len(sink_events[Exporters[3]]) :
                sink_events[Exporters[3]][j] = fallback[i].payload
          /\ \A j \in 1..Len(sink_events[Exporters[2]]) :
                sink_events[Exporters[2]][j] # fallback[i].payload

(***************************************************************************)
(* policy/retry.py                                                         *)
(***************************************************************************)
NoEntry == [strategy |-> "none", max_attempts |-> 0, interval |-> 0]

\* RetryManager._build_policy: "" or the code of the error it raises
build_policy_error(entry) ==
    IF entry = NoEntry THEN ""
    ELSE IF entry.strategy \notin {"fixed", "exponential", "jitter"} THEN "ERR_RETRY_PREDICATE"
    ELSE IF entry.max_attempts < 1 THEN "ERR_RETRY_PREDICATE"
    ELSE ""

\* RetryManager.__init__: "" or the code of the error it raises
RetryManager_error(config) ==
    IF build_policy_error(config.default) # "" THEN build_policy_error(config.default)
    ELSE IF \E n \in DOMAIN config.overrides : build_policy_error(config.overrides[n]) # ""
    THEN "ERR_RETRY_PREDICATE"
    ELSE ""

\* RetryManager.for_node
for_node(node_id) ==
    Get(policies.retry.overrides, node_id, policies.retry.default)

RECURSIVE Pow2(_)
Pow2(n) == IF n <= 0 THEN 1 ELSE 2 * Pow2(n - 1)

\* RetryPolicy._compute_delay (the jitter strategy adds a random amount in
\* [0, jitter]; the policies of this model use the other two strategies)
compute_delay(policy, n) ==
    IF policy.strategy = "fixed" THEN policy.interval
    ELSE IF policy.strategy = "exponential" THEN policy.interval * Pow2(n - 1)
    ELSE policy.interval

\* variants of the give-up test of RetryPolicy.execute: one attempt late,
\* one attempt early, and without the attempt count
retry_gives_up_late(policy, n, retryable) ==
    n > policy.max_attempts \/ ~retryable

retry_gives_up_early(policy, n, retryable) ==
    n + 1 >= policy.max_attempts \/ ~retryable

retry_gives_up_uncounted(policy, n, retryable) ==
    ~retryable

\* RetryPolicy.execute, the except branch: does it re-raise after the
\* attempt-th failure?
retry_gives_up(policy, n, retryable) ==
    n >= policy.max_attempts \/ ~retryable

(***************************************************************************)
(* policy/ratelimit.py: configuration check only                           *)
(***************************************************************************)
\* RateLimiterManager._register: "" or the code of the error it raises
register_error(entry) ==
    IF entry.target = "" THEN "ERR_RL_POLICY_PARAM"
    ELSE IF entry.type \notin {"token_bucket", "fixed_window"} THEN "ERR_RL_POLICY_PARAM"
    ELSE IF entry.capacity <= 0 THEN "ERR_RL_POLICY_PARAM"
    ELSE ""

\* RateLimiterManager.__init__: "" or the code of the error it raises
RateLimiterManager_error(config) ==
    IF \E i \in 1..Len(config) : register_error(config[i]) # ""
    THEN "ERR_RL_POLICY_PARAM" ELSE ""

(***************************************************************************)
(* Scheduler: definition, run arguments and initial state                  *)
(***************************************************************************)
\* largest collection a map node iterates over
MaxItems == 2
\* collection expression that does not resolve to a list
NotArray == -1

NoExc == [type |-> "none", code |-> "", retryable |-> FALSE, call |-> 0]
NoOutcome == [status |-> "none", code |-> "", outputs |-> <<>>]
NoScript == [fails |-> 0, then |-> "ok"]

\* behaviours of a component during one operation: it raises a retryable
\* error on its first `fails` invocations, then returns or raises a
\* non-retryable error
Scripts(n) ==
    IF n = "t"
    THEN { [fails |-> k, then |-> o] : k \in 0..MaxFails, o \in {"ok", "fatal"} }
    ELSE { [fails |-> 0, then |-> "ok"], [fails |-> 1, then |-> "ok"],
           [fails |-> 0, then |-> "fatal"] }

RetryEntries ==
    {NoEntry} \cup { [strategy |-> "fixed", max_attempts |-> m, interval |-> 0] :
                        m \in {1, MaxAttempts} }

RetryOverrides == ("t" :> [strategy |-> "exponential", max_attempts |-> MaxAttempts, interval |-> 1])

\* a map node whose config has no failure_mode
NotConfigured == ""

MapConfigs ==
    { [collection |-> NotArray, failure_mode |-> "fail_fast"],
      [collection |-> 0, failure_mode |-> "fail_fast"],
      [collection |-> MaxItems, failure_mode |-> "fail_fast"],
      [collection |-> MaxItems, failure_mode |-> NotConfigured],
      [collection |-> MaxItems, failure_mode |-> "collect_errors"],
      [collection |-> MaxItems, failure_mode |-> "skip_failed"] }

InitEmitter ==
    /\ events = <<>>
    /\ bus_sequence = [r \in RunIds |-> 0]
    /\ run_totals = [r \in RunIds |-> 0]
    /\ bus_calls = 0
    /\ bus_raised = ""
    /\ NoExports
    /\ IdleParallel
    /\ IdleClose
    /\ IdleMask
    /\ IdleRate
    /\ IdleReach
    /\ IdleInvoke
    /\ IdleDiff
    /\ IdleLoop
    /\ \/ /\ emitter_kind = "memory"
          /\ bus_permissions = [default_allow |-> {}, allow |-> <<>>]
          /\ per_run_tokens = NoLimit
       \/ /\ emitter_kind = "bus"
          /\ bus_permissions = [default_allow |-> {}, allow |-> <<>>]
          /\ per_run_tokens \in {NoLimit, UsageTokens - 1, UsageTokens + 1}

InitRun ==
    /\ pc = "idle"
    /\ pending = <<>>
    /\ visited = {}
    /\ node_states = <<>>
    /\ cancel_token = FALSE
    /\ cur = ""
    /\ frame = ""
    /\ target = ""
    /\ attempt = 0
    /\ script = NoScript
    /\ op_calls = 0
    /\ op_mark = 0
    /\ on_error_calls = 0
    /\ calls = [n \in NodeIds |-> 0]
    /\ loop_index = 0
    /\ results = <<>>
    /\ errors = <<>>
    /\ ret = <<>>
    /\ exc = NoExc
    /\ outcome = NoOutcome

GoodRateLimit == <<[target |-> "llm", type |-> "token_bucket", capacity |-> 1]>>
BadRateLimit == <<[target |-> "", type |-> "token_bucket", capacity |-> 1]>>
BadRetry == [default |-> [strategy |-> "unknown", max_attempts |-> 1, interval |-> 0],
             overrides |-> <<>>]

\* definitions and run arguments whose policies are accepted
GoodConfig ==
    /\ cancel_on_error \in BOOLEAN
    /\ routes \in { ("x" :> "t") @@ ("7" :> "f"),
                    ("x" :> "t") @@ ("7" :> "f") @@ ("default" :> "f") }
    /\ graph_outputs \in { <<>>, <<[key |-> "final", node_id |-> "t", output |-> "result"]>> }
    /\ map_config \in MapConfigs
    /\ \E rt \in RetryEntries, allowed \in SUBSET Permissions :
          policies = [retry |-> [default |-> rt, overrides |-> RetryOverrides],
                      rate_limit |-> GoodRateLimit,
                      permissions |-> [default_allow |-> {},
                                       allow |-> ("cmp-tool" :> allowed)]]

\* definitions with a retry or rate-limit policy the managers reject
\* (test_invalid_retry_config_raises, test_invalid_rate_limit_config_raises)
BadPolicyConfig ==
    /\ cancel_on_error = TRUE
    /\ routes = ("x" :> "t") @@ ("7" :> "f") @@ ("default" :> "f")
    /\ graph_outputs = <<>>
    /\ map_config = [collection |-> 0, failure_mode |-> "fail_fast"]
    /\ \E bad \in {"retry", "rate_limit"} :
          policies = [retry |-> IF bad = "retry" THEN BadRetry
                                ELSE [default |-> NoEntry, overrides |-> <<>>],
                      rate_limit |-> IF bad = "rate_limit" THEN BadRateLimit ELSE GoodRateLimit,
                      permissions |-> [default_allow |-> {}, allow |-> <<>>]]

Init ==
    /\ InitEmitter
    /\ InitRun
    /\ GoodConfig \/ BadPolicyConfig

\* variant of CancelToken.cancel that leaves the flag as it is
CancelToken_cancel_noop(token) == token

(***************************************************************************)
(* Scheduler.run and Scheduler._execute                                    *)
(***************************************************************************)
\* CancelToken.cancel: the new value of the token
CancelToken_cancel(token) == TRUE

GraphExecutionError(code) ==
    [type |-> "GraphExecutionError", code |-> code, retryable |-> FALSE, call |-> 0]

\* Scheduler._collect_outputs: code of the error it raises ("" = none) and
\* the outputs map it returns
collect_outputs(defs, states) ==
    LET err(i) ==
            IF defs[i].node_id \notin DOMAIN states THEN "ERR_EDGE_ENDPOINT_INVALID"
            ELSE IF defs[i].output \notin DOMAIN states[defs[i].node_id].outputs
            THEN "ERR_NODE_TYPE"
            ELSE ""
        bad == { i \in 1..Len(defs) : err(i) # "" }
        keys == { defs[i].key : i \in 1..Len(defs) }
        last(k) == CHOOSE i \in 1..Len(defs) :
                      /\ defs[i].key = k
                      /\ \A j \in 1..Len(defs) : defs[j].key = k => j <= i
    IN  IF bad # {}
        THEN [code |-> err(CHOOSE i \in bad : \A j \in bad : i <= j), outputs |-> <<>>]
        ELSE [code |-> "",
              outputs |-> [k \in keys |->
                              states[defs[last(k)].node_id].outputs[defs[last(k)].output]]]

\* variant of _select_next that returns next_nodes for every kind of node
select_next_ignores_routes(n, states) ==
    [code |-> "", next |-> next_nodes[n]]

\* Scheduler._select_next: error code ("" = none) and the successors
select_next(n, states) ==
    IF kind[n] = "router"
    THEN IF n \notin DOMAIN states
         THEN [code |-> "ERR_ROUTER_NO_MATCH", next |-> <<>>]
         ELSE LET route_value == Get(states[n].outputs, "route", None)
              IN  IF route_value = None
                  THEN [code |-> "ERR_ROUTER_NO_MATCH", next |-> <<>>]
                  ELSE IF Str(route_value) \notin DOMAIN routes
                  THEN IF "default" \notin DOMAIN routes
                       THEN [code |-> "ERR_ROUTER_NO_MATCH", next |-> <<>>]
                       ELSE [code |-> "", next |-> <<routes["default"]>>]
                  ELSE [code |-> "", next |-> <<routes[Str(route_value)]>>]
    ELSE [code |-> "", next |-> next_nodes[n]]

\* variant of the start of run() that emits no graph.start
RunStart_without_event ==
    /\ pc = "idle"
    /\ LET retry_err == RetryManager_error(policies.retry)
           rate_err == RateLimiterManager_error(policies.rate_limit)
           err == IF retry_err # "" THEN retry_err ELSE rate_err
       IN  IF err # ""
           THEN /\ outcome' = [status |-> "raised", code |-> err, outputs |-> <<>>]
                /\ pc' = "done"
                /\ UNCHANGED <<emitVars, pending>>
           ELSE /\ UNCHANGED emitVars
                /\ pending' = <<entrypoint>>
                /\ pc' = "loop"
                /\ UNCHANGED outcome
    /\ UNCHANGED <<busVars, parVars, closeVars, maskVars, rateVars, reachVars, hookVars, diffVars, lpVars, cfgVars, visited, node_states, invokeVars, cancel_token, exc>>

\* run(), lines 78-101: build the policy managers, emit graph.start and
\* enter _execute; a manager that rejects its configuration raises here
RunStart ==
    /\ pc = "idle"
    /\ LET retry_err == RetryManager_error(policies.retry)
           rate_err == RateLimiterManager_error(policies.rate_limit)
           err == IF retry_err # "" THEN retry_err ELSE rate_err
       IN  IF err # ""
           THEN /\ outcome' = [status |-> "raised", code |-> err, outputs |-> <<>>]
                /\ pc' = "done"
                /\ UNCHANGED <<emitVars, pending>>
           ELSE /\ SetEmitter(Emit(EmitterState, Payload("graph.start", "")))
                /\ pending' = <<entrypoint>>
                /\ pc' = "loop"
                /\ UNCHANGED outcome
    /\ UNCHANGED <<busVars, parVars, closeVars, maskVars, rateVars, reachVars, hookVars, diffVars, lpVars, cfgVars, visited, node_states, invokeVars, cancel_token, exc>>

\* _execute: a popped node that is already visited is dropped
LoopSkip ==
    /\ pc = "loop"
    /\ pending # <<>>
    /\ Head(pending) \in visited
    /\ pending' = Tail(pending)
    /\ UNCHANGED <<emitVars, busVars, parVars, closeVars, maskVars, rateVars, reachVars, hookVars, diffVars, lpVars, cfgVars, visited, node_states, invokeVars, runVars>>

\* variant of NodeStart without the `visited` test
NodeStart_ignores_visited ==
    /\ pc = "loop"
    /\ pending # <<>>
    /\ pending' = Tail(pending)
    /\ cur' = Head(pending)
    /\ SetEmitter(Emit(EmitterState, Payload("node.start", Head(pending))))
    /\ pc' = "run_node"
    /\ UNCHANGED <<busVars, parVars, closeVars, maskVars, rateVars, reachVars, hookVars, diffVars, lpVars, cfgVars, visited, node_states, frame, target, attempt, script,
                   op_calls, op_mark, on_error_calls, calls, loop_index, results, errors, ret,
                   cancel_token, exc, outcome>>

\* _execute pops a node and calls _run_node, which emits node.start
NodeStart ==
    /\ pc = "loop"
    /\ pending # <<>>
    /\ Head(pending) \notin visited
    /\ pending' = Tail(pending)
    /\ cur' = Head(pending)
    /\ SetEmitter(Emit(EmitterState, Payload("node.start", Head(pending))))
    /\ pc' = "run_node"
    /\ UNCHANGED <<busVars, parVars, closeVars, maskVars, rateVars, reachVars, hookVars, diffVars, lpVars, cfgVars, visited, node_states, frame, target, attempt, script,
                   op_calls, op_mark, on_error_calls, calls, loop_index, results, errors, ret,
                   cancel_token, exc, outcome>>

\* _execute leaves the loop, collects the outputs and run() emits
\* graph.finish{success}; _collect_outputs may raise instead
LoopDone ==
    /\ pc = "loop"
    /\ pending = <<>>
    /\ LET collected == collect_outputs(graph_outputs, node_states)
       IN  IF collected.code # ""
           THEN /\ exc' = GraphExecutionError(collected.code)
                /\ pc' = "run_raise"
                /\ UNCHANGED <<emitVars, outcome>>
           ELSE /\ SetEmitter(Emit(EmitterState,
                        [Payload("graph.finish", "") EXCEPT !.status = "success"]))
                /\ outcome' = [status |-> "returned", code |-> "", outputs |-> collected.outputs]
                /\ pc' = "teardown"
                /\ UNCHANGED exc
    /\ UNCHANGED <<busVars, parVars, closeVars, maskVars, rateVars, reachVars, hookVars, diffVars, lpVars, cfgVars, loopVars, invokeVars, cancel_token>>

\* run(), the except clauses: cancel the token, emit the terminal events
RunRaise ==
    /\ pc = "run_raise"
    /\ cancel_token' = CancelToken_cancel(cancel_token)
    /\ LET em0 == EmitterState
           em1 == IF exc.type = "TimeoutError" THEN Emit(em0, Payload("timeout", ""))
                  ELSE IF exc.type = "CancelledError" THEN Emit(em0, Payload("cancelled", ""))
                  ELSE em0
           status == IF exc.type = "TimeoutError" THEN "timeout"
                     ELSE IF exc.type = "CancelledError" THEN "cancelled"
                     ELSE "error"
       IN  SetEmitter(Emit(em1, [Payload("graph.finish", "") EXCEPT !.status = status]))
    /\ outcome' = [status |-> "raised",
                   code |-> IF exc.type = "GraphExecutionError" THEN exc.code ELSE exc.type,
                   outputs |-> <<>>]
    /\ pc' = "teardown"
    /\ UNCHANGED <<busVars, parVars, closeVars, maskVars, rateVars, reachVars, hookVars, diffVars, lpVars, cfgVars, loopVars, invokeVars, exc>>

\* run(), the finally clause
Teardown ==
    /\ pc = "teardown"
    /\ pc' = "done"
    /\ UNCHANGED <<emitVars, busVars, parVars, closeVars, maskVars, rateVars, reachVars, hookVars, diffVars, lpVars, cfgVars, loopVars, invokeVars, cancel_token, exc, outcome>>

(***************************************************************************)
(* Scheduler._run_node, _execute_map, _execute_parallel,                   *)
(* _invoke_component_spec and RetryPolicy.execute                          *)
(***************************************************************************)
\* variant of the tail of _execute_map that returns an empty errors list
map_outputs_without_errors(res, errs) ==
    ("results" :> [i \in 1..Len(res) |-> res[i].outputs]) @@ ("errors" :> <<>>)

\* _execute_map, the tail: sort by index and build the node outputs
map_outputs(res, errs) ==
    ("results" :> [i \in 1..Len(res) |-> res[i].outputs]) @@ ("errors" :> errs)

\* _execute_parallel, merge_policy overwrite: later branches win
merge_overwrite(res) ==
    LET done == { i \in 1..Len(branches) : branches[i] \in DOMAIN res }
        keys == UNION { DOMAIN res[branches[i]] : i \in done }
        last(k) == CHOOSE i \in done :
                      /\ k \in DOMAIN res[branches[i]]
                      /\ \A j \in done : k \in DOMAIN res[branches[j]] => j <= i
    IN  [k \in keys |-> res[branches[last(k)]][k]]

\* _run_node, the try body: dispatch on the node kind
RunNodeDispatch ==
    /\ pc = "run_node"
    /\ IF kind[cur] = "map"
       THEN IF map_config.collection = NotArray
            THEN /\ exc' = GraphExecutionError("ERR_MAP_OVER_NOT_ARRAY")
                 /\ pc' = "node_err"
                 /\ UNCHANGED <<frame, target, loop_index, results, errors, ret>>
            ELSE /\ results' = <<>>
                 /\ errors' = <<>>
                 /\ loop_index' = 0
                 /\ frame' = "map"
                 /\ target' = cur
                 /\ IF map_config.collection = 0
                    THEN ret' = [outputs |-> map_outputs(<<>>, <<>>)] /\ pc' = "node_ok"
                    ELSE ret' = ret /\ pc' = "invoke"
                 /\ UNCHANGED exc
       ELSE IF kind[cur] = "parallel"
       THEN /\ results' = <<>>
            /\ loop_index' = 1
            /\ frame' = "parallel"
            /\ target' = branches[1]
            /\ pc' = "invoke"
            /\ UNCHANGED <<errors, ret, exc>>
       ELSE /\ frame' = "node"
            /\ target' = cur
            /\ pc' = "invoke"
            /\ UNCHANGED <<loop_index, results, errors, ret, exc>>
    /\ UNCHANGED <<emitVars, busVars, parVars, closeVars, maskVars, rateVars, reachVars, hookVars, diffVars, lpVars, cfgVars, loopVars, cur, attempt, script, op_calls,
                   op_mark, on_error_calls, calls, cancel_token, outcome>>

\* _invoke_component_spec, lines 619-627 and 670: no component, the tool
\* permission check, then the first attempt; the component's behaviour during
\* this operation is chosen here
InvokeEntry ==
    /\ pc = "invoke"
    /\ IF component_id[target] = NoComponent
       THEN /\ ret' = [outputs |-> <<>>]
            /\ pc' = "invoke_ret"
            /\ UNCHANGED <<exc, script, attempt, op_calls, op_mark, on_error_calls>>
       ELSE IF kind[target] = "tool"
               /\ check_tool_permissions(policies.permissions, component_id[target],
                                         requires_permissions[target]) # {}
       THEN /\ exc' = GraphExecutionError("ERR_TOOL_PERMISSION_DENIED")
            /\ pc' = "frame_raise"
            /\ UNCHANGED <<ret, script, attempt, op_calls, op_mark, on_error_calls>>
       ELSE /\ script' \in Scripts(target)
            /\ attempt' = 0
            /\ op_calls' = 0
            /\ op_mark' = Len(events)
            /\ on_error_calls' = 0
            /\ pc' = "attempt"
            /\ UNCHANGED <<ret, exc>>
    /\ UNCHANGED <<emitVars, busVars, parVars, closeVars, maskVars, rateVars, reachVars, hookVars, diffVars, lpVars, cfgVars, loopVars, cur, frame, target, calls, loop_index,
                   results, errors, cancel_token, outcome>>

\* attempt(): the component is called and the coroutine awaits it
Attempt ==
    /\ pc = "attempt"
    /\ calls' = [calls EXCEPT ![target] = @ + 1]
    /\ op_calls' = op_calls + 1
    /\ pc' = "await"
    /\ UNCHANGED <<emitVars, busVars, parVars, closeVars, maskVars, rateVars, reachVars, hookVars, diffVars, lpVars, cfgVars, loopVars, cur, frame, target, attempt, script,
                   op_mark, on_error_calls, loop_index, results, errors, ret, cancel_token, exc, outcome>>

\* Scheduler._prepare_outputs on a component result: every declared output
\* name is present; the value records the invocation that produced it
prepare_outputs(n, route) ==
    [name \in output_names[n] |-> IF name = "route" THEN route ELSE calls[n]]

\* Scheduler._emit_component_event
component_event(n) ==
    IF kind[n] = "llm"
    THEN [Payload("llm.call", n) EXCEPT !.component_id = component_id[n],
                                        !.tokens_in = UsageTokens - 1, !.tokens_out = 1]
    ELSE [Payload("tool.call", n) EXCEPT !.component_id = component_id[n],
                                         !.required_permissions = requires_permissions[n]]

\* the awaited component returns: outputs are mapped, policy.execute
\* returns, and the llm.call / tool.call event is emitted unless the caller
\* is a map iteration; the emitter may raise
ComponentReturns ==
    /\ pc = "await"
    /\ op_calls > script.fails
    /\ script.then = "ok"
    /\ \E route \in IF kind[target] = "router" THEN RouteValues ELSE {None} :
          ret' = [outputs |-> prepare_outputs(target, route)]
    /\ LET em == IF frame # "map" /\ kind[target] \in {"llm", "tool"}
                 THEN Emit(EmitterState, component_event(target))
                 ELSE EmitterState
       IN  /\ SetEmitter(em)
           /\ IF em.raised # ""
              THEN exc' = GraphExecutionError(em.raised) /\ pc' = "frame_raise"
              ELSE exc' = exc /\ pc' = "invoke_ret"
    /\ UNCHANGED <<busVars, parVars, closeVars, maskVars, rateVars, reachVars, hookVars, diffVars, lpVars, cfgVars, loopVars, cur, frame, target, attempt, script, op_calls,
                   op_mark, on_error_calls, calls, loop_index, results, errors, cancel_token, outcome>>

\* the awaited component raises: RetryPolicy.execute counts the attempt and
\* either re-raises or emits retry.attempt and goes round again; without a
\* policy the error leaves attempt() at once.  The handler around
\* policy.execute (lines 676-695) calls the component's on_error, if it has
\* one, on the error that leaves, and re-raises it
ComponentRaises ==
    /\ pc = "await"
    /\ op_calls <= script.fails \/ script.then = "fatal"
    /\ LET retryable == op_calls <= script.fails
           error == [type |-> "Exception", code |-> "", retryable |-> retryable,
                     call |-> calls[target]]
           policy == for_node(target)
       IN  IF policy = NoEntry
           THEN /\ exc' = error
                /\ pc' = "frame_raise"
                /\ on_error_calls' = on_error_calls + 1
                /\ UNCHANGED <<attempt, emitVars>>
           ELSE /\ attempt' = attempt + 1
                /\ IF retry_gives_up(policy, attempt + 1, retryable)
                   THEN /\ exc' = error
                        /\ pc' = "frame_raise"
                        /\ on_error_calls' = on_error_calls + 1
                        /\ UNCHANGED emitVars
                   ELSE /\ SetEmitter(Emit(EmitterState,
                               [Payload("retry.attempt", target) EXCEPT
                                   !.attempt = attempt + 1,
                                   !.delay = compute_delay(policy, attempt + 1)]))
                        /\ pc' = IF compute_delay(policy, attempt + 1) > 0
                                 THEN "sleep" ELSE "attempt"
                        /\ UNCHANGED <<exc, on_error_calls>>
    /\ UNCHANGED <<busVars, parVars, closeVars, maskVars, rateVars, reachVars, hookVars, diffVars, lpVars, cfgVars, loopVars, cur, frame, target, script, op_calls, op_mark,
                   calls, loop_index, results, errors, ret, cancel_token, outcome>>

\* RetryPolicy.execute: asyncio.sleep(delay) is over
RetryWake ==
    /\ pc = "sleep"
    /\ pc' = "attempt"
    /\ UNCHANGED <<emitVars, busVars, parVars, closeVars, maskVars, rateVars, reachVars, hookVars, diffVars, lpVars, cfgVars, loopVars, invokeVars, cancel_token, exc, outcome>>

\* variant of the expiry in which wait_for does not cancel _execute
Timeout_without_cancel ==
    /\ pc \in {"await", "sleep"}
    /\ exc.type # "TimeoutError"
    /\ exc' = [type |-> "TimeoutError", code |-> "", retryable |-> FALSE, call |-> 0]
    /\ UNCHANGED <<emitVars, busVars, parVars, closeVars, maskVars, rateVars, reachVars, hookVars, diffVars, lpVars, cfgVars, loopVars, invokeVars, pc, cancel_token, outcome>>

\* asyncio.wait_for expires while _execute is suspended: CancelledError
\* unwinds _execute (no handler there catches it) and run() sees TimeoutError
Timeout ==
    /\ pc \in {"await", "sleep"}
    /\ exc' = [type |-> "TimeoutError", code |-> "", retryable |-> FALSE, call |-> 0]
    /\ pc' = "run_raise"
    /\ UNCHANGED <<emitVars, busVars, parVars, closeVars, maskVars, rateVars, reachVars, hookVars, diffVars, lpVars, cfgVars, loopVars, invokeVars, cancel_token, outcome>>

\* variant of the cancellation that RetryPolicy.execute takes for a failed
\* attempt and answers with another call of the operation
Cancel_retried ==
    /\ pc \in {"await", "sleep"}
    /\ exc.type # "CancelledError"
    /\ exc' = [type |-> "CancelledError", code |-> "", retryable |-> FALSE, call |-> 0]
    /\ pc' = "attempt"
    /\ UNCHANGED <<emitVars, busVars, parVars, closeVars, maskVars, rateVars, reachVars, hookVars, diffVars, lpVars, cfgVars, loopVars, invokeVars, cancel_token, outcome>>

\* the caller cancels the task running run() while it is suspended
Cancel ==
    /\ pc \in {"await", "sleep"}
    /\ exc' = [type |-> "CancelledError", code |-> "", retryable |-> FALSE, call |-> 0]
    /\ pc' = "run_raise"
    /\ UNCHANGED <<emitVars, busVars, parVars, closeVars, maskVars, rateVars, reachVars, hookVars, diffVars, lpVars, cfgVars, loopVars, invokeVars, cancel_token, outcome>>

\* _execute_map: move on to the next item, or finish the loop
MapAdvance(res, errs) ==
    /\ results' = res
    /\ errors' = errs
    /\ IF loop_index + 1 < map_config.collection
       THEN /\ loop_index' = loop_index + 1
            /\ pc' = "invoke"
            /\ ret' = ret
       ELSE /\ loop_index' = loop_index
            /\ pc' = "node_ok"
            /\ ret' = [outputs |-> map_outputs(res, errs)]

\* _execute_map, line 470: an iteration returned
MapIterationReturns ==
    /\ pc = "invoke_ret"
    /\ frame = "map"
    /\ MapAdvance(Append(results, [index |-> loop_index, outputs |-> ret.outputs]), errors)
    /\ UNCHANGED <<emitVars, busVars, parVars, closeVars, maskVars, rateVars, reachVars, hookVars, diffVars, lpVars, cfgVars, loopVars, cur, frame, target, attempt, script,
                   op_calls, op_mark, on_error_calls, calls, cancel_token, exc, outcome>>

\* _execute_map, line 446: the failure mode, fail_fast unless configured
failure_mode ==
    IF map_config.failure_mode = NotConfigured THEN "fail_fast"
    ELSE map_config.failure_mode

\* variant of the handler of a failed iteration that goes on to the next
\* item in every failure mode
MapIterationRaises_continues ==
    /\ pc = "frame_raise"
    /\ frame = "map"
    /\ SetEmitter(Emit(EmitterState,
           [Payload("error.raised", cur) EXCEPT !.iteration = loop_index]))
    /\ IF FALSE
       THEN /\ exc' = GraphExecutionError("ERR_NODE_RUNTIME")
            /\ pc' = "node_err"
            /\ UNCHANGED <<loop_index, results, errors, ret>>
       ELSE IF failure_mode = "collect_errors"
       THEN /\ MapAdvance(results, Append(errors, [index |-> loop_index, error |-> exc.call]))
            /\ exc' = NoExc
       ELSE /\ MapAdvance(results, errors)
            /\ exc' = NoExc
    /\ UNCHANGED <<busVars, parVars, closeVars, maskVars, rateVars, reachVars, hookVars, diffVars, lpVars, cfgVars, loopVars, cur, frame, target, attempt, script,
                   op_calls, op_mark, on_error_calls, calls, cancel_token, outcome>>

\* _execute_map, lines 471-490: an iteration raised
MapIterationRaises ==
    /\ pc = "frame_raise"
    /\ frame = "map"
    /\ SetEmitter(Emit(EmitterState,
           [Payload("error.raised", cur) EXCEPT !.iteration = loop_index]))
    /\ IF failure_mode = "fail_fast"
       THEN /\ exc' = GraphExecutionError("ERR_NODE_RUNTIME")
            /\ pc' = "node_err"
            /\ UNCHANGED <<loop_index, results, errors, ret>>
       ELSE IF failure_mode = "collect_errors"
       THEN /\ MapAdvance(results, Append(errors, [index |-> loop_index, error |-> exc.call]))
            /\ exc' = NoExc
       ELSE /\ MapAdvance(results, errors)
            /\ exc' = NoExc
    /\ UNCHANGED <<busVars, parVars, closeVars, maskVars, rateVars, reachVars, hookVars, diffVars, lpVars, cfgVars, loopVars, cur, frame, target, attempt, script,
                   op_calls, op_mark, on_error_calls, calls, cancel_token, outcome>>

\* _execute_parallel, mode all, lines 583-601: a branch returned; after the
\* last one the branch outputs are merged
BranchReturns ==
    /\ pc = "invoke_ret"
    /\ frame = "parallel"
    /\ LET res == (target :> ret.outputs) @@ results
       IN  /\ results' = res
           /\ IF loop_index < Len(branches)
              THEN /\ loop_index' = loop_index + 1
                   /\ target' = branches[loop_index + 1]
                   /\ pc' = "invoke"
                   /\ ret' = ret
              ELSE /\ loop_index' = loop_index
                   /\ target' = target
                   /\ pc' = "node_ok"
                   /\ ret' = [outputs |-> ("results" :> merge_overwrite(res))]
    /\ UNCHANGED <<emitVars, busVars, parVars, closeVars, maskVars, rateVars, reachVars, hookVars, diffVars, lpVars, cfgVars, loopVars, cur, frame, attempt, script,
                   op_calls, op_mark, on_error_calls, calls, errors, cancel_token, exc, outcome>>

\* _run_node, lines 299-310 and 355, and _execute, lines 216-224: the node
\* state is stored, node.finish{success} emitted, the successors selected
\* and enqueued; a router without a matching route raises instead
NodeFinishSuccess ==
    /\ pc = "node_ok" \/ (pc = "invoke_ret" /\ frame = "node")
    /\ LET states == (cur :> ret) @@ node_states
           selected == select_next(cur, states)
       IN  /\ node_states' = states
           /\ SetEmitter(Emit(EmitterState,
                  [Payload("node.finish", cur) EXCEPT !.status = "success"]))
           /\ IF selected.code # ""
              THEN /\ exc' = GraphExecutionError(selected.code)
                   /\ pc' = "run_raise"
                   /\ UNCHANGED <<pending, visited>>
              ELSE /\ visited' = visited \cup {cur}
                   /\ pending' = pending \o selected.next
                   /\ pc' = "loop"
                   /\ UNCHANGED exc
    /\ UNCHANGED <<busVars, parVars, closeVars, maskVars, rateVars, reachVars, hookVars, diffVars, lpVars, cfgVars, invokeVars, cancel_token, outcome>>

\* variant of the error path of _run_node that stores nothing for a
\* tolerated failure
NodeFinishError_unrecorded ==
    /\ pc = "node_err" \/ (pc = "frame_raise" /\ frame \in {"node", "parallel"})
    /\ SetEmitter(Emit(Emit(EmitterState, Payload("error.raised", cur)),
                       [Payload("node.finish", cur) EXCEPT !.status = "error"]))
    /\ IF exc.type = "GraphExecutionError"
       THEN /\ cancel_token' = CancelToken_cancel(cancel_token)
            /\ pc' = "run_raise"
            /\ UNCHANGED <<exc, node_states, visited>>
       ELSE IF cancel_on_error
       THEN /\ cancel_token' = CancelToken_cancel(cancel_token)
            /\ exc' = [GraphExecutionError("ERR_NODE_RUNTIME") EXCEPT !.call = exc.call]
            /\ pc' = "run_raise"
            /\ UNCHANGED <<node_states, visited>>
       ELSE /\ node_states' = node_states
            /\ visited' = visited \cup {cur}
            /\ pc' = "loop"
            /\ exc' = NoExc
            /\ UNCHANGED cancel_token
    /\ UNCHANGED <<busVars, parVars, closeVars, maskVars, rateVars, reachVars, hookVars, diffVars, lpVars, cfgVars, pending, invokeVars, outcome>>

\* _run_node, lines 311-353: error.raised and node.finish{error}; a
\* GraphExecutionError always cancels and propagates, any other exception
\* does so only with cancel_on_error
NodeFinishError ==
    /\ pc = "node_err" \/ (pc = "frame_raise" /\ frame \in {"node", "parallel"})
    /\ SetEmitter(Emit(Emit(EmitterState, Payload("error.raised", cur)),
                       [Payload("node.finish", cur) EXCEPT !.status = "error"]))
    /\ IF exc.type = "GraphExecutionError"
       THEN /\ cancel_token' = CancelToken_cancel(cancel_token)
            /\ pc' = "run_raise"
            /\ UNCHANGED <<exc, node_states, visited>>
       ELSE IF cancel_on_error
       THEN /\ cancel_token' = CancelToken_cancel(cancel_token)
            /\ exc' = [GraphExecutionError("ERR_NODE_RUNTIME") EXCEPT !.call = exc.call]
            /\ pc' = "run_raise"
            /\ UNCHANGED <<node_states, visited>>
       ELSE /\ node_states' = (cur :> [outputs |-> <<>>]) @@ node_states
            /\ visited' = visited \cup {cur}
            /\ pc' = "loop"
            /\ exc' = NoExc
            /\ UNCHANGED cancel_token
    /\ UNCHANGED <<busVars, parVars, closeVars, maskVars, rateVars, reachVars, hookVars, diffVars, lpVars, cfgVars, pending, invokeVars, outcome>>

Next ==
    \/ RunStart
    \/ LoopSkip
    \/ NodeStart
    \/ LoopDone
    \/ RunNodeDispatch
    \/ InvokeEntry
    \/ Attempt
    \/ ComponentReturns
    \/ ComponentRaises
    \/ RetryWake
    \/ Timeout
    \/ Cancel
    \/ MapIterationReturns
    \/ MapIterationRaises
    \/ BranchReturns
    \/ NodeFinishSuccess
    \/ NodeFinishError
    \/ RunRaise
    \/ Teardown

Spec == Init /\ [][Next]_vars

TypeOK ==
    /\ pc \in {"off", "idle", "loop", "run_node", "invoke", "attempt", "await", "sleep",
               "invoke_ret", "frame_raise", "node_ok", "node_err", "run_raise",
               "teardown", "done"}
    /\ visited \subseteq NodeIds
    /\ cancel_token \in BOOLEAN

(***************************************************************************)
(* Observations on the event log                                           *)
(***************************************************************************)
\* positions of the events with a name and node id
EventIdx(name, n) ==
    { i \in 1..Len(events) : events[i].event = name /\ events[i].node_id = n }

\* attempt values of the retry.attempt events of one node at positions
\* after `from`, in emission order
RetryAttempts(n, from) ==
    LET F[i \in 0..Len(events)] ==
            IF i = 0 THEN <<>>
            ELSE IF i > from /\ events[i].event = "retry.attempt" /\ events[i].node_id = n
                 THEN Append(F[i - 1], events[i].attempt)
                 ELSE F[i - 1]
    IN  F[Len(events)]

\* status of the graph.finish event matching what run() raised
RaisedStatus(code) ==
    IF code = "TimeoutError" THEN "timeout"
    ELSE IF code = "CancelledError" THEN "cancelled"
    ELSE "error"

\* C2: in one run each node id is executed by the main loop (node.start
\* emitted) at most once, however often it was appended to pending
C2_ExecutedAtMostOnce ==
    \A n \in NodeIds : Cardinality(EventIdx("node.start", n)) <= 1

\* the fan-in node j was enqueued by both t and e, and the run completed
C2_Witness ==
    /\ pc = "done"
    /\ outcome.status = "returned"
    /\ {"t", "e", "j"} \subseteq visited
    /\ Cardinality(EventIdx("node.start", "j")) = 1

\* C3: whatever way the run ends, every node the main loop started has
\* exactly one node.start and one node.finish, in that order, and only
\* retry.attempt, rate.limit.wait, llm.call or tool.call events of that same
\* node in between
C3_StartFinishPair ==
    pc = "done" =>
        \A n \in NodeIds :
            EventIdx("node.start", n) # {} =>
                /\ Cardinality(EventIdx("node.start", n)) = 1
                /\ Cardinality(EventIdx("node.finish", n)) = 1
                /\ LET st == CHOOSE i \in EventIdx("node.start", n) : TRUE
                       fi == CHOOSE i \in EventIdx("node.finish", n) : TRUE
                   IN  /\ st < fi
                       /\ \A i \in (st + 1)..(fi - 1) :
                             /\ events[i].event \in {"retry.attempt", "rate.limit.wait",
                                                     "llm.call", "tool.call"}
                             /\ events[i].node_id = n

\* C4: a run that ended by raising has emitted graph.finish with the
\* matching status before the error reached the caller
C4_FinishBeforeRaise ==
    (pc = "done" /\ outcome.status = "raised") =>
        \E i \in 1..Len(events) :
            /\ events[i].event = "graph.finish"
            /\ events[i].status = RaisedStatus(outcome.code)

\* C5 as stated: when a run that started executing has finished with any
\* terminal outcome (return, node error, timeout, cancellation) the cancel
\* token is set
C5_TokenSetAtAnyEnd ==
    (pc = "done" /\ \E i \in 1..Len(events) : events[i].event = "graph.start")
    => cancel_token

\* C5 amended: a run that raised after graph.start (node error, timeout,
\* cancellation) has set the cancel token before it reaches teardown
C5_TokenSetAfterFailure ==
    (pc \in {"teardown", "done"} /\ outcome.status = "raised"
        /\ \E i \in 1..Len(events) : events[i].event = "graph.start")
    => cancel_token

\* a run ended by the graph-wide timeout, token set
C5_Witness ==
    pc = "done" /\ outcome.code = "TimeoutError" /\ cancel_token

\* max_attempts of the retry policy of a node (0 without a policy)
MaxAttemptsOf(n) == for_node(n).max_attempts

\* C6 as stated: per node id the attempt values of its retry.attempt events
\* are strictly increasing over the whole run, start at 1 and stay below
\* max_attempts, map nodes included
C6_AttemptsIncreasePerNode ==
    \A n \in NodeIds :
        LET a == RetryAttempts(n, 0)
        IN  /\ Len(a) > 0 => a[1] = 1
            /\ \A i \in 1..Len(a) : a[i] <= MaxAttemptsOf(n) - 1
            /\ \A i \in 1..(Len(a) - 1) : a[i] < a[i + 1]

\* C6 amended: within one RetryPolicy.execute call (one component operation,
\* for a map node one iteration) the attempt values are 1, 2, ... in order,
\* and no retry.attempt of the run exceeds max_attempts - 1
C6_AttemptsIncreasePerOperation ==
    /\ \A i \in 1..Len(events) :
          events[i].event = "retry.attempt" =>
              /\ events[i].attempt >= 1
              /\ events[i].attempt <= MaxAttemptsOf(events[i].node_id) - 1
    /\ pc \in {"attempt", "await", "sleep"} =>
          LET a == RetryAttempts(target, op_mark)
          IN  /\ Len(a) = attempt
              /\ \A i \in 1..Len(a) : a[i] = i

\* both iterations of the map node have retried once
C6_Witness ==
    /\ pc = "attempt"
    /\ frame = "map"
    /\ loop_index = 1
    /\ attempt = 1
    /\ RetryAttempts(cur, 0) = <<1, 1>>

\* the node that the main loop ran last has finished: its component was
\* invoked through the base path and `script` is that operation's behaviour
BaseNodeFinished ==
    /\ cur # ""
    /\ frame = "node"
    /\ target = cur
    /\ calls[cur] >= 1
    /\ EventIdx("node.finish", cur) # {}

FinishStatus(n) == events[CHOOSE i \in EventIdx("node.finish", n) : TRUE].status

\* the emitter raised on the node's llm.call / tool.call event
KindEventRejected(n) ==
    /\ emitter_kind = "bus"
    /\ kind[n] \in {"llm", "tool"}
    /\ EventIdx("llm.call", n) \cup EventIdx("tool.call", n) = {}

\* the component failed script.fails times with retryable errors and then
\* returned, with fewer failures than the policy's max_attempts
RecoverableScript ==
    /\ BaseNodeFinished
    /\ for_node(cur) # NoEntry
    /\ script.then = "ok"
    /\ script.fails < MaxAttemptsOf(cur)

\* C7 as stated: k retryable failures then success, k < max_attempts, give
\* k+1 invocations, k retry.attempt events, outputs of invocation k+1 and
\* node.finish{success}
C7_RetryRecovers ==
    RecoverableScript =>
        /\ calls[cur] = script.fails + 1
        /\ Len(RetryAttempts(cur, 0)) = script.fails
        /\ FinishStatus(cur) = "success"
        /\ cur \in DOMAIN node_states
        /\ \A name \in DOMAIN node_states[cur].outputs :
              name # "route" => node_states[cur].outputs[name] = script.fails + 1

\* C7 amended: the same, except that node.finish has status error (and no
\* outputs are stored) when the emitter rejects the node's llm.call /
\* tool.call event
C7_RetryRecoversUnlessRejected ==
    RecoverableScript =>
        /\ calls[cur] = script.fails + 1
        /\ Len(RetryAttempts(cur, 0)) = script.fails
        /\ IF KindEventRejected(cur)
           THEN FinishStatus(cur) = "error"
           ELSE /\ FinishStatus(cur) = "success"
                /\ cur \in DOMAIN node_states
                /\ \A name \in DOMAIN node_states[cur].outputs :
                      name # "route" => node_states[cur].outputs[name] = script.fails + 1

\* the tool node recovered on its last permitted attempt
C7_Witness ==
    /\ RecoverableScript
    /\ cur = "t"
    /\ script.fails = MaxAttempts - 1
    /\ FinishStatus(cur) = "success"

\* C8: under a retry policy an operation is invoked at most max_attempts
\* times; the error leaving the policy is the one of the last invocation; and
\* the operation has emitted one retry.attempt less than it made invocations
C8_RetryBounded ==
    /\ (pc \in {"attempt", "await", "sleep"} /\ for_node(target) # NoEntry) =>
          /\ op_calls <= MaxAttemptsOf(target)
          /\ pc = "await" => Len(RetryAttempts(target, op_mark)) = op_calls - 1
    /\ (pc = "frame_raise" /\ exc.type = "Exception" /\ for_node(target) # NoEntry) =>
          /\ exc.call = calls[target]
          /\ op_calls <= MaxAttemptsOf(target)
          /\ Len(RetryAttempts(target, op_mark)) = op_calls - 1
          /\ MaxAttemptsOf(target) = 1 => Len(RetryAttempts(target, op_mark)) = 0
    /\ (pc = "invoke_ret" /\ component_id[target] # NoComponent /\ for_node(target) # NoEntry) =>
          Len(RetryAttempts(target, op_mark)) = op_calls - 1

\* every permitted invocation failed with a retryable error: retries exhausted
C8_Witness ==
    /\ pc = "frame_raise"
    /\ exc.type = "Exception"
    /\ exc.retryable
    /\ MaxAttemptsOf(target) = MaxAttempts
    /\ op_calls = MaxAttempts

\* the router has just completed: its state is stored and node.finish
\* {success} emitted, and _select_next has run
RouterCompleted ==
    /\ cur = "r"
    /\ pc \in {"loop", "run_raise"}
    /\ "r" \in DOMAIN node_states
    /\ "route" \in DOMAIN node_states["r"].outputs
    /\ FinishStatus("r") = "success"

\* the successor C9 names for a route value ("" when neither the key nor
\* `default` exists)
RouteTarget(v) ==
    IF Str(v) \in DOMAIN routes THEN routes[Str(v)]
    ELSE IF "default" \in DOMAIN routes THEN routes["default"]
    ELSE ""

\* nodes on the routes started only when the router selected them
OnlyTakenRoute(values) ==
    \A n \in {"t", "f"} :
        EventIdx("node.start", n) # {} =>
            /\ "r" \in DOMAIN node_states
            /\ "route" \in DOMAIN node_states["r"].outputs
            /\ node_states["r"].outputs.route \in values
            /\ RouteTarget(node_states["r"].outputs.route) = n

\* C9 as stated: after the router completes with route = v, for every value
\* v, the only successor enqueued is routes[str(v)], else routes['default'],
\* else the run fails with ERR_ROUTER_NO_MATCH; next_nodes are not enqueued
C9_RouterSelects ==
    /\ RouterCompleted =>
          LET v == node_states["r"].outputs.route
          IN  IF RouteTarget(v) # ""
              THEN pc = "loop" /\ pending = <<RouteTarget(v)>>
              ELSE pc = "run_raise" /\ exc.code = "ERR_ROUTER_NO_MATCH"
    /\ OnlyTakenRoute(RouteValues)

\* C9 amended: the same for every route value other than None; a route of
\* None fails with ERR_ROUTER_NO_MATCH whatever the routes are
C9_RouterSelectsNotNone ==
    /\ RouterCompleted =>
          LET v == node_states["r"].outputs.route
          IN  IF v # None /\ RouteTarget(v) # ""
              THEN pc = "loop" /\ pending = <<RouteTarget(v)>>
              ELSE pc = "run_raise" /\ exc.code = "ERR_ROUTER_NO_MATCH"
    /\ OnlyTakenRoute(RouteValues \ {None})

\* the router returned a route that is no key of routes and the default
\* successor alone was enqueued
C9_Witness ==
    /\ RouterCompleted
    /\ node_states["r"].outputs.route = PyStr("y")
    /\ pc = "loop"
    /\ pending = <<"f">>

\* the graph output definition refers to a node that completed with the
\* referenced output
Produced(d) ==
    /\ d.node_id \in DOMAIN node_states
    /\ d.output \in DOMAIN node_states[d.node_id].outputs

\* C10: the run's outputs hold a declared key iff its node completed and
\* produced the output, and a run whose nodes all ran to the end of the main
\* loop completes even when a declared output's node was not executed
C10_OutputsIffProduced ==
    /\ outcome.status = "returned" =>
          \A i \in 1..Len(graph_outputs) :
              graph_outputs[i].key \in DOMAIN outcome.outputs <=> Produced(graph_outputs[i])
    /\ outcome.status = "raised" =>
          outcome.code \notin {"ERR_EDGE_ENDPOINT_INVALID", "ERR_NODE_TYPE"}

\* the run is being aborted by the failure of the node `cur`: a
\* GraphExecutionError left _run_node (not _collect_outputs, whose codes are
\* ERR_EDGE_ENDPOINT_INVALID and ERR_NODE_TYPE)
NodeFailureAborts ==
    /\ pc = "run_raise"
    /\ exc.type = "GraphExecutionError"
    /\ exc.code \notin {"ERR_EDGE_ENDPOINT_INVALID", "ERR_NODE_TYPE"}

\* C11: every node.finish{error} directly follows an error.raised of the same
\* node; a node whose failure aborts the run (component error, permission
\* denial, cost-limit rejection, map or parallel failure, router without a
\* matching route) has both events and no node.finish{success}
C11_FailureEmitsErrorEvents ==
    /\ \A j \in 1..Len(events) :
          (events[j].event = "node.finish" /\ events[j].status = "error") =>
              /\ j > 1
              /\ events[j - 1].event = "error.raised"
              /\ events[j - 1].node_id = events[j].node_id
    /\ NodeFailureAborts =>
          /\ \E i \in EventIdx("error.raised", cur), j \in EventIdx("node.finish", cur) :
                i < j /\ events[j].status = "error"
          /\ \A j \in EventIdx("node.finish", cur) : events[j].status # "success"

\* the node `cur` has just failed: its node.finish{error} is the last event
NodeJustFailed ==
    /\ cur # ""
    /\ Len(events) > 0
    /\ events[Len(events)].event = "node.finish"
    /\ events[Len(events)].node_id = cur
    /\ events[Len(events)].status = "error"

\* C12: with cancel_on_error = false a node failure of any kind leaves the
\* cancel token unset and the run going: the node is stored with empty
\* outputs, none of its successors is pending, the main loop continues
C12_FailureContinuesWithoutCancel ==
    (~cancel_on_error /\ NodeJustFailed) =>
        /\ ~cancel_token
        /\ pc = "loop"
        /\ cur \in DOMAIN node_states
        /\ node_states[cur].outputs = <<>>
        /\ \A i \in 1..Len(pending) :
              \A k \in 1..Len(next_nodes[cur]) : pending[i] # next_nodes[cur][k]

\* permissions the definition's policy grants to a node's component
Allowed(n) ==
    policies.permissions.default_allow
        \cup Get(policies.permissions.allow, component_id[n], {})

\* C13: a tool component is invoked only when its requires_permissions are
\* allowed, and a node failure with ERR_TOOL_PERMISSION_DENIED happens with
\* the tool not invoked (attempt() acquires the rate-limit tokens and calls
\* the component, so neither has happened) and with error.raised emitted,
\* whichever emitter receives the events
C13_DeniedBeforeInvocation ==
    /\ \A n \in NodeIds :
          (kind[n] = "tool" /\ calls[n] > 0) => requires_permissions[n] \subseteq Allowed(n)
    /\ (NodeFailureAborts /\ exc.code = "ERR_TOOL_PERMISSION_DENIED") =>
          /\ kind[cur] = "tool"
          /\ calls[cur] = 0
          /\ EventIdx("error.raised", cur) # {}


\* the iterations of map node n for which _execute_map emitted error.raised
IterationErrors(n) ==
    { events[i].iteration : i \in { k \in EventIdx("error.raised", n) :
                                       events[k].iteration >= 0 } }

C19_FailFast ==
    (failure_mode = "fail_fast" /\ IterationErrors("j") # {}) =>
        /\ IterationErrors("j") = {loop_index}
        /\ Cardinality(EventIdx("error.raised", "j")) <= 2
        /\ Len(results) = loop_index
        /\ pc \in {"node_err", "run_raise", "teardown", "done"}
        /\ "j" \notin DOMAIN node_states
        /\ IF pc \in {"node_err", "run_raise"}
           THEN exc = GraphExecutionError("ERR_NODE_RUNTIME")
           ELSE outcome.status = "raised" /\ outcome.code = "ERR_NODE_RUNTIME"
        /\ pc # "node_err" => FinishStatus("j") = "error"
        /\ for_node("j") = NoEntry => calls["j"] = loop_index + 1

\* a map node without a configured failure_mode failed at its first item,
\* with items left, and the run ended
C19_Witness ==
    /\ map_config.failure_mode = NotConfigured
    /\ IterationErrors("j") = {0}
    /\ map_config.collection > 1
    /\ calls["j"] >= 1
    /\ pc = "done"

\* the events of the run that carry the id of node n
EventsOf(n) == { i \in 1..Len(events) : events[i].node_id = n }

\* C37: with failure_mode skip_failed a failing iteration adds nothing to the
\* results or the errors of the map node and emits no event of its own, and
\* the items after it are still processed; in every failure mode the map
\* node's only events are its node.start and its node.finish
C37_SkipFailedSilent ==
    /\ ("j" \in DOMAIN node_states /\ failure_mode = "skip_failed") =>
          /\ node_states["j"].outputs["errors"] = <<>>
          /\ Len(node_states["j"].outputs["results"]) <= map_config.collection
          /\ for_node("j") = NoEntry => calls["j"] = map_config.collection
          /\ IterationErrors("j") = {}
    /\ \A i \in EventsOf("j") : events[i].event \in {"node.start", "node.finish"}


\* wait_for has expired: run() is handling, or has handled, TimeoutError
TimedOut == exc.type = "TimeoutError"

\* C23: once the graph-wide timeout has expired during the execution, the
\* only events emitted are `timeout` and then graph.finish{timeout}, so no
\* node.start follows the expiry; the cancel token is set and TimeoutError
\* reaches the caller
C23_TimeoutEndsRun ==
    /\ [](TimedOut =>
            /\ pc \in {"run_raise", "teardown", "done"}
            /\ Cardinality({ i \in 1..Len(events) : events[i].event = "timeout" })
                  = IF pc = "run_raise" THEN 0 ELSE 1
            /\ pc # "run_raise" =>
                  /\ cancel_token
                  /\ outcome = [status |-> "raised", code |-> "TimeoutError", outputs |-> <<>>]
                  /\ Len(events) >= 2
                  /\ events[Len(events) - 1].event = "timeout"
                  /\ events[Len(events)].event = "graph.finish"
                  /\ events[Len(events)].status = "timeout")
    /\ [][TimedOut =>
            /\ TimedOut'
            /\ \/ events' = events
               \/ /\ pc = "run_raise"
                  /\ Len(events') = Len(events) + 2
                  /\ SubSeq(events', 1, Len(events)) = events]_vars

\* the timeout expired during the second node of a run, which then ended
C23_Witness ==
    /\ TimedOut
    /\ pc = "done"
    /\ EventIdx("node.start", "r") # {}
    /\ EventIdx("node.finish", "r") = {}
    /\ cancel_token

\* the run was interrupted by the caller's cancellation or by the timeout
Interrupted == exc.type \in {"TimeoutError", "CancelledError"}

RetryEvents == { i \in 1..Len(events) : events[i].event = "retry.attempt" }

\* C35: a cancellation or a timeout that arrives during an attempt is no
\* retryable failure: from the interruption on no retry.attempt is emitted
\* and no component is called again, whatever max_attempts is
C35_InterruptNotRetried ==
    /\ [](Interrupted => pc \in {"run_raise", "teardown", "done"})
    /\ [][Interrupted' =>
            /\ calls' = calls
            /\ attempt' = attempt
            /\ Cardinality(RetryEvents') = Cardinality(RetryEvents)]_vars

\* a run cancelled while the retry engine was at work on a node: one attempt
\* had failed and been retried, and the policy allowed more attempts
C35_Witness ==
    /\ exc.type = "CancelledError"
    /\ pc = "done"
    /\ target # ""
    /\ op_calls = 2
    /\ attempt = 1
    /\ MaxAttemptsOf(target) > 2

\* C27: every graph.finish event is preceded by a graph.start event of the
\* same run_id, and a run emits at most one graph.finish
C27_FinishAfterStart ==
    /\ \A i \in 1..Len(events) :
          events[i].event = "graph.finish" =>
              \E j \in 1..(i - 1) :
                  /\ events[j].event = "graph.start"
                  /\ events[j].run_id = events[i].run_id
    /\ \A r \in RunIds :
          Cardinality({ i \in 1..Len(events) :
                           events[i].event = "graph.finish" /\ events[i].run_id = r }) <= 1

\* a run that raised after a node failure has emitted its graph.finish
C27_Witness ==
    /\ pc = "done"
    /\ outcome.status = "raised"
    /\ \E i \in 1..Len(events) :
          events[i].event = "graph.finish" /\ events[i].status = "error"
    /\ events[1].event = "graph.start"

\* C28 as stated: a node has an entry in node_states only if it completed
\* successfully
C28_EntryOnlyOnSuccess ==
    \A n \in DOMAIN node_states :
        /\ EventIdx("node.finish", n) # {}
        /\ FinishStatus(n) = "success"

\* C28: an entry of node_states is written at most once and never changed;
\* a node has one iff it emitted node.finish{success}, or it failed with an
\* exception that is no GraphExecutionError while cancel_on_error is false,
\* in which case the entry has empty outputs; a node the main loop never
\* executed has none
C28_EntryOnSuccessOrTolerated ==
    /\ [](\A n \in NodeIds :
            /\ n \in DOMAIN node_states =>
                  /\ EventIdx("node.start", n) # {}
                  /\ EventIdx("node.finish", n) # {}
                  /\ \/ FinishStatus(n) = "success"
                     \/ /\ FinishStatus(n) = "error"
                        /\ ~cancel_on_error
                        /\ node_states[n].outputs = <<>>
            /\ (EventIdx("node.finish", n) # {} /\ FinishStatus(n) = "success")
                  => n \in DOMAIN node_states
            /\ (EventIdx("node.finish", n) # {} /\ FinishStatus(n) = "error"
                   /\ n \in visited)
                  => n \in DOMAIN node_states)
    /\ [][\A n \in DOMAIN node_states :
            /\ n \in DOMAIN node_states'
            /\ node_states'[n] = node_states[n]]_vars

\* with cancel_on_error false a node failed and was stored with empty
\* outputs next to a node that succeeded
C28_Witness ==
    /\ ~cancel_on_error
    /\ \E n, m \in DOMAIN node_states :
          /\ FinishStatus(n) = "error"
          /\ node_states[n].outputs = <<>>
          /\ FinishStatus(m) = "success"
          /\ node_states[m].outputs # <<>>

\* a step in which the awaited component raises an Exception
AttemptFails ==
    /\ pc = "await"
    /\ \/ pc' \in {"sleep", "attempt"}
       \/ pc' = "frame_raise" /\ exc'.type = "Exception"

\* C30: on_error is called before the retry logic: every attempt of a
\* component that fails calls on_error once, the attempts that are retried
\* included
C30_OnErrorPerFailedAttempt ==
    [][AttemptFails => on_error_calls' = on_error_calls + 1]_vars

(***************************************************************************)
(* SpecParallel: Scheduler._execute_parallel over run_branch coroutines    *)
(* The event loop runs its ready handles in order; a task created by       *)
(* create_task is a ready handle; a task that finishes schedules its done  *)
(* callbacks; asyncio.wait's callback sets the waiter, which schedules the *)
(* waiting coroutine.                                                      *)
(***************************************************************************)
MaxBranches == 2

BranchIndexes == 1..MaxBranches

ParallelModes == {"all", "first_success", "any"}

MergePolicies == {"overwrite", "namespace", "error"}

\* the outputs a branch component may produce
BranchOutputs == { "k" :> 1, "k" :> 2, "m" :> 1, ("k" :> 1) @@ ("m" :> 2) }

Handle(h, b) == [h |-> h, b |-> b]

Raised(code) == [status |-> "error", code |-> code, outputs |-> <<>>]

InitParallel ==
    /\ events = <<>>
    /\ bus_sequence = [r \in RunIds |-> 0]
    /\ run_totals = [r \in RunIds |-> 0]
    /\ bus_permissions = [default_allow |-> {}, allow |-> <<>>]
    /\ per_run_tokens = NoLimit
    /\ bus_calls = 0
    /\ bus_raised = ""
    /\ NoExports
    /\ IdleRun
    /\ IdleClose
    /\ IdleMask
    /\ IdleRate
    /\ IdleReach
    /\ IdleInvoke
    /\ IdleDiff
    /\ IdleLoop
    /\ par_config \in [mode : ParallelModes, merge_policy : MergePolicies,
                       outputs : [BranchIndexes -> BranchOutputs]]
    /\ par_pc = "start"
    /\ tasks = [b \in BranchIndexes |-> "none"]
    /\ ready = <<>>
    /\ waiter = FALSE
    /\ par_results = <<>>
    /\ par_log = <<>>
    /\ par_outcome = [status |-> "none", code |-> "", outputs |-> <<>>]

\* variant of the merge that never compares the values of a repeated key
merge_first_wins(merge_policy, res) ==
    LET M[i \in 0..Len(res)] ==
            IF i = 0 THEN <<>>
            ELSE res[i].outputs @@ M[i - 1]
    IN  IF merge_policy = "namespace"
        THEN [raised |-> "", outputs |-> [i \in 1..Len(res) |-> res[i].outputs]]
        ELSE [raised |-> "", outputs |-> M[Len(res)]]

\* lines 587-599: merged_outputs, or the ERR_NODE_RUNTIME of a merge conflict;
\* the results are visited in insertion order and a later value replaces an
\* earlier one
merge(merge_policy, res) ==
    LET M[i \in 0..Len(res)] ==
            IF i = 0 THEN [raised |-> "", outputs |-> <<>>]
            ELSE LET prev == M[i - 1]
                     out == res[i].outputs
                 IN  IF prev.raised # "" THEN prev
                     ELSE IF /\ merge_policy = "error"
                             /\ \E key \in DOMAIN out :
                                   /\ key \in DOMAIN prev.outputs
                                   /\ prev.outputs[key] # out[key]
                     THEN [raised |-> "ERR_NODE_RUNTIME", outputs |-> <<>>]
                     ELSE [raised |-> "", outputs |-> out @@ prev.outputs]
    IN  IF merge_policy = "namespace"
        THEN [raised |-> "", outputs |-> [i \in 1..Len(res) |-> res[i].outputs]]
        ELSE M[Len(res)]

\* lines 587-601: from the results dict to the return or the raise
Finish(res) ==
    LET m == merge(par_config.merge_policy, res)
    IN  /\ par_results' = res
        /\ par_pc' = IF m.raised = "" THEN "done" ELSE "raised"
        /\ par_outcome' = IF m.raised = ""
                          THEN [status |-> "success", code |-> "", outputs |-> m.outputs]
                          ELSE Raised(m.raised)

Entry(b) == [branch |-> b, outputs |-> par_config.outputs[b]]

\* lines 563-567 and 582: the tasks are created, or the loop over the
\* branches is entered
ParallelStart ==
    /\ par_pc = "start"
    /\ IF par_config.mode \in {"first_success", "any"}
       THEN /\ tasks' = [b \in BranchIndexes |-> "created"]
            /\ ready' = [b \in BranchIndexes |-> Handle("task", b)]
            /\ par_pc' = "wait"
       ELSE /\ par_pc' = "branch"
            /\ UNCHANGED <<tasks, ready>>
    /\ UNCHANGED <<par_config, waiter, par_results, par_log, par_outcome>>
    /\ UNCHANGED <<emitVars, busVars, closeVars, maskVars, rateVars, reachVars, hookVars, diffVars, lpVars, cfgVars, loopVars, invokeVars, runVars>>

\* the event loop runs the step of a task: run_branch starts or resumes and
\* returns, raises or (on its first step) suspends
TaskRun ==
    /\ par_pc = "wait"
    /\ ready # <<>>
    /\ Head(ready).h = "task"
    /\ LET b == Head(ready).b
           first == tasks[b] = "created"
           log == IF first THEN Append(par_log, [op |-> "start", b |-> b]) ELSE par_log
       IN  \E how \in IF first THEN {"return", "raise", "suspend"} ELSE {"return", "raise"} :
              IF how = "suspend"
              THEN /\ tasks' = [tasks EXCEPT ![b] = "suspended"]
                   /\ ready' = Tail(ready)
                   /\ par_log' = log
              ELSE /\ tasks' = [tasks EXCEPT ![b] = IF how = "return" THEN "done" ELSE "failed"]
                   /\ ready' = Append(Tail(ready), Handle("callback", b))
                   /\ par_log' = Append(log, [op |-> how, b |-> b])
    /\ UNCHANGED <<par_config, par_pc, waiter, par_results, par_outcome>>
    /\ UNCHANGED <<emitVars, busVars, closeVars, maskVars, rateVars, reachVars, hookVars, diffVars, lpVars, cfgVars, loopVars, invokeVars, runVars>>

\* what a suspended run_branch awaits completes: its task is ready again
TaskWake ==
    /\ par_pc = "wait"
    /\ \E b \in BranchIndexes :
          /\ tasks[b] = "suspended"
          /\ tasks' = [tasks EXCEPT ![b] = "woken"]
          /\ ready' = Append(ready, Handle("task", b))
    /\ UNCHANGED <<par_config, par_pc, waiter, par_results, par_log, par_outcome>>
    /\ UNCHANGED <<emitVars, busVars, closeVars, maskVars, rateVars, reachVars, hookVars, diffVars, lpVars, cfgVars, loopVars, invokeVars, runVars>>

\* line 568: the done callback of asyncio.wait; the first one sets the
\* waiter, which makes _execute_parallel ready
Callback ==
    /\ par_pc = "wait"
    /\ ready # <<>>
    /\ Head(ready).h = "callback"
    /\ waiter' = TRUE
    /\ ready' = IF waiter THEN Tail(ready)
                ELSE Append(Tail(ready), Handle("main", 0))
    /\ UNCHANGED <<par_config, par_pc, tasks, par_results, par_log, par_outcome>>
    /\ UNCHANGED <<emitVars, busVars, closeVars, maskVars, rateVars, reachVars, hookVars, diffVars, lpVars, cfgVars, loopVars, invokeVars, runVars>>

\* lines 568-601: asyncio.wait returns the tasks that are done and those
\* that are not; the latter are cancelled; next(iter(done)) is any member of
\* the set `done`
WaitReturns ==
    /\ par_pc = "wait"
    /\ ready # <<>>
    /\ Head(ready).h = "main"
    /\ LET done == { b \in BranchIndexes : tasks[b] \in {"done", "failed"} }
       IN  \E winning \in done :
              /\ tasks' = [b \in BranchIndexes |->
                             IF b \in done THEN tasks[b] ELSE "cancelled"]
              /\ ready' = SelectSeq(Tail(ready), LAMBDA x : x.h # "task")
              /\ IF tasks[winning] = "failed"
                 THEN /\ par_pc' = "raised"
                      /\ par_outcome' = Raised("ERR_NODE_RUNTIME")
                      /\ UNCHANGED par_results
                 ELSE Finish(<<Entry(winning)>>)
    /\ UNCHANGED <<par_config, waiter, par_log>>
    /\ UNCHANGED <<emitVars, busVars, closeVars, maskVars, rateVars, reachVars, hookVars, diffVars, lpVars, cfgVars, loopVars, invokeVars, runVars>>

\* the branch the loop of lines 583-585 is at
NextBranch == Len(par_results) + 1

\* line 584: branch_state = await run_branch(...), for a branch that
\* returns: line 585, and after the last branch lines 587-601
AllBranchReturns ==
    IF NextBranch = MaxBranches
    THEN Finish(Append(par_results, Entry(NextBranch)))
    ELSE /\ par_results' = Append(par_results, Entry(NextBranch))
         /\ UNCHANGED <<par_pc, par_outcome>>

\* line 584 for a branch that raises: the exception leaves _execute_parallel
AllBranchRaises ==
    /\ par_pc' = "raised"
    /\ par_outcome' = Raised("branch")
    /\ UNCHANGED par_results

\* lines 583-584: the loop awaits run_branch of the next branch, which
\* returns, raises or suspends
BranchRun ==
    /\ par_pc = "branch"
    /\ tasks[NextBranch] = "none"
    /\ LET b == NextBranch
           log == Append(par_log, [op |-> "start", b |-> b])
       IN  \E how \in {"return", "raise", "suspend"} :
              /\ tasks' = [tasks EXCEPT ![b] =
                              CASE how = "return" -> "done"
                                [] how = "raise" -> "failed"
                                [] OTHER -> "suspended"]
              /\ par_log' = IF how = "suspend" THEN log
                            ELSE Append(log, [op |-> how, b |-> b])
              /\ CASE how = "return" -> AllBranchReturns
                   [] how = "raise" -> AllBranchRaises
                   [] OTHER -> UNCHANGED <<par_pc, par_results, par_outcome>>
    /\ UNCHANGED <<par_config, ready, waiter>>
    /\ UNCHANGED <<emitVars, busVars, closeVars, maskVars, rateVars, reachVars, hookVars, diffVars, lpVars, cfgVars, loopVars, invokeVars, runVars>>

\* line 584: the awaited run_branch resumes and returns or raises
BranchResume ==
    /\ par_pc = "branch"
    /\ tasks[NextBranch] = "suspended"
    /\ LET b == NextBranch
       IN  \E how \in {"return", "raise"} :
              /\ tasks' = [tasks EXCEPT ![b] = IF how = "return" THEN "done" ELSE "failed"]
              /\ par_log' = Append(par_log, [op |-> how, b |-> b])
              /\ IF how = "return" THEN AllBranchReturns ELSE AllBranchRaises
    /\ UNCHANGED <<par_config, ready, waiter>>
    /\ UNCHANGED <<emitVars, busVars, closeVars, maskVars, rateVars, reachVars, hookVars, diffVars, lpVars, cfgVars, loopVars, invokeVars, runVars>>

NextParallel ==
    \/ ParallelStart
    \/ TaskRun
    \/ TaskWake
    \/ Callback
    \/ WaitReturns
    \/ BranchRun
    \/ BranchResume

SpecParallel == InitParallel /\ [][NextParallel]_vars

\* positions in par_log of an operation of a branch
LogIdx(ops, b) == { i \in 1..Len(par_log) : par_log[i].op \in ops /\ par_log[i].b = b }

ParallelEnded == par_pc \in {"done", "raised"}

\* the branches whose outputs the results dict holds
InResults == { par_results[i].branch : i \in 1..Len(par_results) }

\* C15: in mode first_success/any every branch is started; the outcome is
\* that of the first branch to complete (its outputs alone in the results,
\* or ERR_NODE_RUNTIME if it failed); every other branch is cancelled
C15_FirstCompletedWins ==
    (ParallelEnded /\ par_config.mode \in {"first_success", "any"}) =>
        /\ \A b \in BranchIndexes : LogIdx({"start"}, b) # {}
        /\ \E i \in 1..Len(par_log) :
              /\ par_log[i].op \in {"return", "raise"}
              /\ \A j \in 1..(i - 1) : par_log[j].op = "start"
              /\ IF par_log[i].op = "return"
                 THEN /\ par_outcome.status = "success"
                      /\ par_results = <<Entry(par_log[i].b)>>
                 ELSE par_outcome = Raised("ERR_NODE_RUNTIME")
              /\ \A b \in BranchIndexes \ {par_log[i].b} : tasks[b] = "cancelled"

\* C16: in mode all every branch is started before any branch has
\* completed; the node completes when all branches have completed, and a
\* branch that fails makes the node fail
C16_AllBranchesConcurrent ==
    par_config.mode = "all" =>
        /\ \A i \in 1..Len(par_log) :
              par_log[i].op \in {"return", "raise"} =>
                  \A b \in BranchIndexes : \E j \in 1..(i - 1) :
                      par_log[j] = [op |-> "start", b |-> b]
        /\ par_pc = "done" => \A b \in BranchIndexes : tasks[b] = "done"
        /\ (\E b \in BranchIndexes : tasks[b] = "failed") => par_pc = "raised"

\* two of the branches held in the results produced one key with unequal values
MergeConflict ==
    \E i, j \in 1..Len(par_results) :
        \E key \in DOMAIN par_results[i].outputs \cap DOMAIN par_results[j].outputs :
            par_results[i].outputs[key] # par_results[j].outputs[key]

\* the branches ran to the merge: none of them made the node fail
MergeReached ==
    /\ ParallelEnded
    /\ par_results # <<>>
    /\ \A b \in InResults : tasks[b] = "done"
    /\ par_config.mode = "all" => InResults = BranchIndexes

MaxCloseNodes == 3

MaxRuns == 2

CloseNodes == 1..MaxCloseNodes

\* the component objects of a definition
ComponentObjects == {"c1", "c2"}

\* how the try block of run() can end
TryOutcomes == {"success", "error", "timeout", "cancelled"}

\* variant of _collect_closables that lists a component once per node
collect_closables_per_node(binding, has_close) ==
    LET F[i \in 0..Len(binding)] ==
            IF i = 0 THEN <<>>
            ELSE IF binding[i] = NoComponent \/ binding[i] \notin has_close
                 THEN F[i - 1]
                 ELSE Append(F[i - 1], binding[i])
    IN  F[Len(binding)]

\* _collect_closables: the components that have close(), one entry per
\* object (dict keyed by id(component)), in order of first appearance
collect_closables(binding, has_close) ==
    LET F[i \in 0..Len(binding)] ==
            IF i = 0 THEN <<>>
            ELSE IF \/ binding[i] = NoComponent
                    \/ binding[i] \notin has_close
                    \/ \E k \in 1..Len(F[i - 1]) : F[i - 1][k] = binding[i]
                 THEN F[i - 1]
                 ELSE Append(F[i - 1], binding[i])
    IN  F[Len(binding)]

InitClose ==
    /\ events = <<>>
    /\ bus_sequence = [r \in RunIds |-> 0]
    /\ run_totals = [r \in RunIds |-> 0]
    /\ bus_permissions = [default_allow |-> {}, allow |-> <<>>]
    /\ per_run_tokens = NoLimit
    /\ bus_calls = 0
    /\ bus_raised = ""
    /\ NoExports
    /\ IdleParallel
    /\ IdleMask
    /\ IdleRate
    /\ IdleReach
    /\ IdleInvoke
    /\ IdleDiff
    /\ IdleLoop
    /\ IdleRun
    /\ close_def \in [binding : [CloseNodes -> ComponentObjects \cup {NoComponent}],
                      has_close : SUBSET ComponentObjects]
    /\ close_pc = "idle"
    /\ close_run = 0
    /\ close_queue = <<>>
    /\ closed = [c \in ComponentObjects |-> <<>>]
    /\ close_outcome = ""
    /\ delivered = <<>>

\* run(), lines 78-101: a run starts; the closables are collected before the try
CloseRunStart ==
    /\ close_pc = "idle"
    /\ close_run < MaxRuns
    /\ close_run' = close_run + 1
    /\ close_queue' = collect_closables(close_def.binding, close_def.has_close)
    /\ close_outcome' = ""
    /\ close_pc' = "try"
    /\ UNCHANGED <<close_def, closed, delivered>>
    /\ UNCHANGED <<emitVars, busVars, parVars, maskVars, rateVars, reachVars, hookVars, diffVars, lpVars, cfgVars, loopVars, invokeVars, runVars>>

\* run(), lines 103-169: the try block returns or one of its except clauses
\* re-raises; the finally clause is entered
CloseTryEnds ==
    /\ close_pc = "try"
    /\ close_outcome' \in TryOutcomes
    /\ close_pc' = "finally"
    /\ UNCHANGED <<close_def, close_run, close_queue, closed, delivered>>
    /\ UNCHANGED <<emitVars, busVars, parVars, maskVars, rateVars, reachVars, hookVars, diffVars, lpVars, cfgVars, loopVars, invokeVars, runVars>>

\* _close_components, lines 842-852: close() of the next closable is invoked
\* and returns or raises an Exception, which is emitted as error.raised
CloseComponent ==
    /\ close_pc = "finally"
    /\ close_queue # <<>>
    /\ LET c == Head(close_queue)
       IN  /\ closed' = [closed EXCEPT ![c] = Append(@, close_run)]
           /\ \E raises \in BOOLEAN :
                 events' = IF raises
                           THEN Append(events, [event |-> "error.raised",
                                                node_id |-> c, run |-> close_run])
                           ELSE events
    /\ close_queue' = Tail(close_queue)
    /\ UNCHANGED <<close_def, close_pc, close_run, close_outcome, delivered>>
    /\ UNCHANGED <<bus_sequence, run_totals>>
    /\ UNCHANGED <<busVars, parVars, maskVars, rateVars, reachVars, hookVars, diffVars, lpVars, cfgVars, loopVars, invokeVars, runVars>>

\* run(), line 171 done: the result or the exception of the try block
\* reaches the caller
CloseRunLeaves ==
    /\ close_pc = "finally"
    /\ close_queue = <<>>
    /\ delivered' = Append(delivered, [try |-> close_outcome, caller |-> close_outcome])
    /\ close_pc' = "idle"
    /\ UNCHANGED <<close_def, close_run, close_queue, closed, close_outcome>>
    /\ UNCHANGED <<emitVars, busVars, parVars, maskVars, rateVars, reachVars, hookVars, diffVars, lpVars, cfgVars, loopVars, invokeVars, runVars>>

NextClose ==
    \/ CloseRunStart
    \/ CloseTryEnds
    \/ CloseComponent
    \/ CloseRunLeaves

SpecClose == InitClose /\ [][NextClose]_vars

\* the components with close() bound to a node of the definition
Closable ==
    { c \in close_def.has_close :
         \E n \in DOMAIN close_def.binding : close_def.binding[n] = c }

\* number of close() invocations on c during run number r
ClosedIn(c, r) == Cardinality({ i \in 1..Len(closed[c]) : closed[c][i] = r })

C22_ClosedOncePerDefinition ==
    \A c \in ComponentObjects :
        /\ Len(closed[c]) <= 1
        /\ (Len(delivered) >= 1 /\ c \in Closable) => closed[c] = <<1>>

(***************************************************************************)
(* SpecMask: policy/masking.py, MaskingEngine with only `fields` set       *)
(* A value is a scalar [s |-> text] or a mapping [d |-> key -> value].     *)
(***************************************************************************)
MaxFields == 2

MaskKeys == {"a", "b"}

Scalar(text) == [s |-> text]

Mapping(f) == [d |-> f]

IsMapping(x) == "d" \in DOMAIN x

\* mappings from some of the keys to values of the set V
MappingsOver(V) == UNION { [K -> V] : K \in SUBSET MaskKeys }

\* payloads: mappings whose values are scalars or mappings of scalars
MaskPayloads ==
    MappingsOver({Scalar("v")} \cup { Mapping(f) : f \in MappingsOver({Scalar("v")}) })

\* a configured field, as the list of the pieces between its dots; a piece
\* may be empty ("a..b", ".a", "")
RawFields == UNION { [1..n -> MaskKeys \cup {""}] : n \in 1..2 }

mask_value == "***"

\* [part for part in path.split(".") if part]
path_parts(field) == SelectSeq(field, LAMBDA part : part # "")

\* variant of _set_path that sets the leaf only under mappings that were
\* already there: a mapping it has to create is left empty
RECURSIVE set_path_lazy(_, _, _)
set_path_lazy(data, parts, value) ==
    IF parts = <<>> THEN data
    ELSE IF Len(parts) = 1 THEN (parts[1] :> Scalar(value)) @@ data
    ELSE IF parts[1] \in DOMAIN data /\ IsMapping(data[parts[1]])
    THEN (parts[1] :> Mapping(set_path_lazy(data[parts[1]].d, Tail(parts), value))) @@ data
    ELSE (parts[1] :> Mapping(<<>>)) @@ data

\* _set_path on already split parts: the mapping after the assignment; an
\* intermediate value that is no mapping is replaced by a new one
RECURSIVE set_path(_, _, _)
set_path(data, parts, value) ==
    IF parts = <<>> THEN data
    ELSE IF Len(parts) = 1 THEN (parts[1] :> Scalar(value)) @@ data
    ELSE LET next_value == IF parts[1] \in DOMAIN data /\ IsMapping(data[parts[1]])
                           THEN data[parts[1]].d
                           ELSE <<>>
         IN  (parts[1] :> Mapping(set_path(next_value, Tail(parts), value))) @@ data

\* MaskingEngine.mask, lines 35-37 and 48 (diff_fields is empty): the
\* fields are set in their configured order on a copy of the payload
mask(fields, payload) ==
    LET F[i \in 0..Len(fields)] ==
            IF i = 0 THEN payload
            ELSE set_path(F[i - 1], path_parts(fields[i]), mask_value)
    IN  F[Len(fields)]

InitMask ==
    /\ events = <<>>
    /\ bus_sequence = [r \in RunIds |-> 0]
    /\ run_totals = [r \in RunIds |-> 0]
    /\ bus_permissions = [default_allow |-> {}, allow |-> <<>>]
    /\ per_run_tokens = NoLimit
    /\ bus_calls = 0
    /\ bus_raised = ""
    /\ NoExports
    /\ IdleParallel
    /\ IdleClose
    /\ IdleRate
    /\ IdleReach
    /\ IdleInvoke
    /\ IdleDiff
    /\ IdleLoop
    /\ IdleRun
    /\ mask_fields \in UNION { [1..n -> RawFields] : n \in 0..MaxFields }
    /\ mask_payload \in MaskPayloads
    /\ masked = <<>>

\* engine.mask(event, payload) on the payload, then on each result
MaskCall ==
    /\ Len(masked) < 2
    /\ masked' = Append(masked, mask(mask_fields,
                                     IF masked = <<>> THEN mask_payload
                                     ELSE masked[Len(masked)]))
    /\ UNCHANGED <<mask_fields, mask_payload>>
    /\ UNCHANGED <<emitVars, busVars, parVars, closeVars, rateVars, reachVars, hookVars, diffVars, lpVars, cfgVars, loopVars, invokeVars, runVars>>

NextMask == MaskCall

SpecMask == InitMask /\ [][NextMask]_vars

\* C24: for every configuration with only `fields` set and every payload p,
\* mask(mask(p)) = mask(p)
C24_MaskIdempotent ==
    Len(masked) = 2 => masked[2] = masked[1]

\* masking twice a payload that the first call changed by replacing a scalar
\* with a mapping on the way to a nested field
C24_Witness ==
    /\ Len(masked) = 2
    /\ masked[1] # mask_payload
    /\ \E i \in 1..Len(mask_fields) :
          /\ Len(path_parts(mask_fields[i])) = 2
          /\ path_parts(mask_fields[i])[1] \in DOMAIN mask_payload
          /\ ~IsMapping(mask_payload[path_parts(mask_fields[i])[1]])

(***************************************************************************)
(* SpecRate: policy/ratelimit.py, concurrent acquire() calls on one        *)
(* limiter.  Time is counted in ticks; tokens are counted in units of      *)
(* 1/TokenUnit token, refill_rate in units per tick.  The body of each     *)
(* `async with self.lock` block has no await, so it is one step.           *)
(***************************************************************************)
MaxCallers == 3

MaxTime == 3

TokenUnit == 2

Callers == 1..MaxCallers

NotAdmitted == [time |-> -1, window |-> -1]

RateConfigs ==
    { [type |-> "fixed_window", limit |-> l, window |-> w, capacity |-> 0, refill_rate |-> 0] :
         l \in 1..2, w \in 1..2 }
    \cup
    { [type |-> "token_bucket", limit |-> 0, window |-> 0, capacity |-> c, refill_rate |-> r] :
         c \in 1..2, r \in 1..TokenUnit }

InitRate ==
    /\ events = <<>>
    /\ bus_sequence = [r \in RunIds |-> 0]
    /\ run_totals = [r \in RunIds |-> 0]
    /\ bus_permissions = [default_allow |-> {}, allow |-> <<>>]
    /\ per_run_tokens = NoLimit
    /\ bus_calls = 0
    /\ bus_raised = ""
    /\ NoExports
    /\ IdleParallel
    /\ IdleClose
    /\ IdleMask
    /\ IdleReach
    /\ IdleInvoke
    /\ IdleDiff
    /\ IdleLoop
    /\ IdleRun
    /\ rl_config \in RateConfigs
    /\ rl_now = 0
    /\ rl_limiter = [window_start |-> 0, count |-> 0,
                     tokens |-> rl_config.capacity * TokenUnit, updated_at |-> 0]
    /\ rl_callers = [c \in Callers |-> [pc |-> "idle", since |-> 0, num |-> 0, den |-> 1]]
    /\ rl_admitted = [c \in Callers |-> NotAdmitted]
    /\ rl_waits = [c \in Callers |-> <<>>]

\* monotonic() advances
Tick ==
    /\ rl_now < MaxTime
    /\ rl_now' = rl_now + 1
    /\ UNCHANGED <<rl_config, rl_limiter, rl_callers, rl_admitted, rl_waits>>
    /\ UNCHANGED <<emitVars, busVars, parVars, closeVars, maskVars, reachVars, hookVars, diffVars, lpVars, cfgVars, loopVars, invokeVars, runVars>>

Min(a, b) == IF a <= b THEN a ELSE b

Max(a, b) == IF a >= b THEN a ELSE b

\* variant of the accrual without the clamp to capacity
accrue_unclamped(limiter, now) ==
    IF now - limiter.updated_at > 0
    THEN [limiter EXCEPT !.tokens = limiter.tokens
                                       + (now - limiter.updated_at) * rl_config.refill_rate,
                         !.updated_at = now]
    ELSE limiter

\* TokenBucketRateLimiter.acquire, lines 38-42 and 50-54: accrual
accrue(limiter, now) ==
    IF now - limiter.updated_at > 0
    THEN [limiter EXCEPT !.tokens = Min(rl_config.capacity * TokenUnit,
                                        limiter.tokens
                                          + (now - limiter.updated_at) * rl_config.refill_rate),
                         !.updated_at = now]
    ELSE limiter

\* FixedWindowRateLimiter.acquire, lines 77-80: the window rolls
roll(limiter, now) ==
    IF now - limiter.window_start >= rl_config.window
    THEN [limiter EXCEPT !.window_start = now, !.count = 0]
    ELSE limiter

\* acquire() returns to caller c
Admit(c, limiter) ==
    /\ rl_limiter' = limiter
    /\ rl_admitted' = [rl_admitted EXCEPT ![c] = [time |-> rl_now,
                                                  window |-> limiter.window_start]]
    /\ rl_callers' = [rl_callers EXCEPT ![c].pc = "done"]
    /\ UNCHANGED rl_waits

\* rate.limit.wait is emitted with wait_time = num / den and the caller
\* leaves the lock to sleep
Wait(c, limiter, num, den) ==
    /\ rl_limiter' = limiter
    /\ rl_waits' = [rl_waits EXCEPT ![c] = Append(@, [num |-> num, den |-> den])]
    /\ rl_callers' = [rl_callers EXCEPT ![c] = [pc |-> "sleeping", since |-> rl_now,
                                                num |-> num, den |-> den]]
    /\ UNCHANGED rl_admitted

\* acquire(), the first locked block: lines 37-47 and 76-85
AcquireEnter ==
    /\ \E c \in Callers :
          /\ rl_callers[c].pc = "idle"
          /\ IF rl_config.type = "fixed_window"
             THEN LET lim == roll(rl_limiter, rl_now)
                  IN  IF lim.count < rl_config.limit
                      THEN Admit(c, [lim EXCEPT !.count = @ + 1])
                      ELSE Wait(c, lim, rl_config.window - (rl_now - lim.window_start), 1)
             ELSE LET lim == accrue(rl_limiter, rl_now)
                  IN  IF lim.tokens >= TokenUnit
                      THEN Admit(c, [lim EXCEPT !.tokens = @ - TokenUnit])
                      ELSE Wait(c, lim, TokenUnit - lim.tokens, rl_config.refill_rate)
    /\ UNCHANGED <<rl_config, rl_now>>
    /\ UNCHANGED <<emitVars, busVars, parVars, closeVars, maskVars, reachVars, hookVars, diffVars, lpVars, cfgVars, loopVars, invokeVars, runVars>>

\* acquire(), after asyncio.sleep(wait_time): lines 49-55 and 87-89
AcquireWake ==
    /\ \E c \in Callers :
          /\ rl_callers[c].pc = "sleeping"
          /\ (rl_now - rl_callers[c].since) * rl_callers[c].den >= rl_callers[c].num
          /\ IF rl_config.type = "fixed_window"
             THEN Admit(c, [rl_limiter EXCEPT !.window_start = rl_now, !.count = 1])
             ELSE LET lim == accrue(rl_limiter, rl_now)
                  IN  Admit(c, [lim EXCEPT !.tokens = Max(0, @ - TokenUnit)])
    /\ UNCHANGED <<rl_config, rl_now>>
    /\ UNCHANGED <<emitVars, busVars, parVars, closeVars, maskVars, reachVars, hookVars, diffVars, lpVars, cfgVars, loopVars, invokeVars, runVars>>

NextRate ==
    \/ Tick
    \/ AcquireEnter
    \/ AcquireWake

SpecRate == InitRate /\ [][NextRate]_vars

\* the callers admitted in the limiter's window that starts at w
AdmittedIn(w) == { c \in Callers : rl_admitted[c] # NotAdmitted /\ rl_admitted[c].window = w }

\* C25: a fixed-window limiter admits at most `limit` acquires in any one of
\* its windows, woken waiters included; a caller that found the window full
\* emitted rate.limit.wait and was admitted only after the window had rolled
C25_WindowAdmitsAtMostLimit ==
    rl_config.type = "fixed_window" =>
        /\ \A w \in 0..MaxTime : Cardinality(AdmittedIn(w)) <= rl_config.limit
        /\ \A c \in Callers :
              (rl_waits[c] # <<>> /\ rl_admitted[c] # NotAdmitted) =>
                  /\ Len(rl_waits[c]) = 1
                  /\ rl_admitted[c].time >= rl_callers[c].since + rl_waits[c][1].num

\* C26: a token bucket always has 0 <= tokens <= capacity; an acquire
\* returns without rate.limit.wait iff a whole token is available after the
\* accrual, and then takes exactly one token; otherwise it emits exactly one
\* rate.limit.wait with wait_time = (1 - tokens) / refill_rate and sleeps
C26_TokenBucket ==
    /\ [](rl_config.type = "token_bucket" =>
            /\ rl_limiter.tokens >= 0
            /\ rl_limiter.tokens <= rl_config.capacity * TokenUnit
            /\ \A c \in Callers : Len(rl_waits[c]) <= 1)
    /\ [][rl_config.type = "token_bucket" =>
            \A c \in Callers :
                (rl_callers[c].pc = "idle" /\ rl_callers'[c].pc # "idle") =>
                    LET elapsed == rl_now - rl_limiter.updated_at
                        raw == rl_limiter.tokens + elapsed * rl_config.refill_rate
                        tokens == IF raw > rl_config.capacity * TokenUnit
                                  THEN rl_config.capacity * TokenUnit ELSE raw
                    IN  /\ rl_waits'[c] = <<>> <=> tokens >= TokenUnit
                        /\ tokens >= TokenUnit =>
                              /\ rl_callers'[c].pc = "done"
                              /\ rl_limiter'.tokens = tokens - TokenUnit
                        /\ tokens < TokenUnit =>
                              /\ rl_callers'[c].pc = "sleeping"
                              /\ rl_limiter'.tokens = tokens
                              /\ rl_waits'[c] = <<[num |-> TokenUnit - tokens,
                                                   den |-> rl_config.refill_rate]>>]_vars

\* one caller took the last token at once, another found a partly refilled
\* bucket, waited and was admitted later
C26_Witness ==
    /\ rl_config.type = "token_bucket"
    /\ \E c, d \in Callers :
          /\ rl_waits[c] = <<>>
          /\ rl_admitted[c] # NotAdmitted
          /\ rl_waits[d] # <<>>
          /\ rl_waits[d][1].num < TokenUnit
          /\ rl_admitted[d] # NotAdmitted

\* C40: on a token bucket every admitted acquire takes a whole token: the
\* acquires admitted so far, those admitted after a wait included, are never
\* more than capacity plus the tokens refilled so far
C40_AdmittedWithinTokens ==
    rl_config.type = "token_bucket" =>
        Cardinality({ c \in Callers : rl_admitted[c] # NotAdmitted }) * TokenUnit
            <= rl_config.capacity * TokenUnit + rl_now * rl_config.refill_rate

(***************************************************************************)
(* SpecReach: ir/model.py, _normalize_graph on a graph of up to            *)
(* MaxGraphNodes nodes.  Node ids are 1..MaxGraphNodes; 0 is an id that no *)
(* node of the graph has.                                                  *)
(***************************************************************************)
MaxGraphNodes == 3

GraphNodeIds == 1..MaxGraphNodes

\* the `next` of a node after _extract_targets: no target, one target that
\* may be no node, or two nodes
NextTargets ==
    {<<>>} \cup { <<t>> : t \in 0..MaxGraphNodes }
           \cup { q \in GraphNodeIds \X GraphNodeIds : q[1] < q[2] }

InitReach ==
    /\ events = <<>>
    /\ bus_sequence = [r \in RunIds |-> 0]
    /\ run_totals = [r \in RunIds |-> 0]
    /\ bus_permissions = [default_allow |-> {}, allow |-> <<>>]
    /\ per_run_tokens = NoLimit
    /\ bus_calls = 0
    /\ bus_raised = ""
    /\ NoExports
    /\ IdleParallel
    /\ IdleClose
    /\ IdleMask
    /\ IdleRate
    /\ IdleInvoke
    /\ IdleDiff
    /\ IdleLoop
    /\ IdleRun
    /\ rg_entry \in 0..MaxGraphNodes
    /\ rg_connectivity \in [GraphNodeIds -> NextTargets]
    /\ rg_warnings = <<>>
    /\ rg_outcome = "pending"

Targets(connectivity, n) == { connectivity[n][i] : i \in 1..Len(connectivity[n]) }

\* variant of the traversal that follows only the first target of a node
RECURSIVE collect_first_target(_, _, _)
collect_first_target(queue, reachable, connectivity) ==
    IF queue = <<>> THEN reachable
    ELSE LET node_id == Head(queue)
         IN  IF node_id \in reachable
             THEN collect_first_target(Tail(queue), reachable, connectivity)
             ELSE collect_first_target(
                      Tail(queue) \o (IF connectivity[node_id] = <<>> THEN <<>>
                                      ELSE <<connectivity[node_id][1]>>),
                      reachable \cup {node_id}, connectivity)

\* _collect_reachable, lines 596-604: the loop over the queue
RECURSIVE collect_reachable(_, _, _)
collect_reachable(queue, reachable, connectivity) ==
    IF queue = <<>> THEN reachable
    ELSE LET node_id == Head(queue)
             NotYet(t) == t \notin reachable \cup {node_id}
         IN  IF node_id \in reachable
             THEN collect_reachable(Tail(queue), reachable, connectivity)
             ELSE collect_reachable(
                      Tail(queue) \o SelectSeq(connectivity[node_id], NotYet),
                      reachable \cup {node_id}, connectivity)

\* _normalize_graph, lines 420-476: the error it raises ("" = none) and the
\* nodes it warns about as unreachable, in the order of graph.nodes
normalize_graph(entry_id, connectivity) ==
    IF entry_id \notin GraphNodeIds
    THEN [error |-> "ERR_GRAPH_ENTRY_NOT_FOUND", unreachable |-> <<>>]
    ELSE IF \E n \in GraphNodeIds : Targets(connectivity, n) \ GraphNodeIds # {}
    THEN [error |-> "ERR_EDGE_ENDPOINT_INVALID", unreachable |-> <<>>]
    ELSE LET reachable == collect_reachable(<<entry_id>>, {}, connectivity)
             Unreached(n) == n \notin reachable
         IN  [error |-> "",
              unreachable |-> SelectSeq([i \in GraphNodeIds |-> i], Unreached)]

\* normalize_document reaches _normalize_graph
NormalizeGraph ==
    /\ rg_outcome = "pending"
    /\ LET r == normalize_graph(rg_entry, rg_connectivity)
       IN  /\ rg_outcome' = IF r.error = "" THEN "ok" ELSE r.error
           /\ rg_warnings' = r.unreachable
    /\ UNCHANGED <<rg_entry, rg_connectivity>>
    /\ UNCHANGED <<emitVars, busVars, parVars, closeVars, maskVars, rateVars, hookVars, diffVars, lpVars, cfgVars, loopVars, invokeVars, runVars>>

NextReach == NormalizeGraph

SpecReach == InitReach /\ [][NextReach]_vars

\* the nodes to which a path of k or fewer `next` edges leads from the entry
Within[k \in 0..MaxGraphNodes] ==
    IF k = 0 THEN {rg_entry}
    ELSE Within[k - 1]
           \cup UNION { Targets(rg_connectivity, n) : n \in Within[k - 1] \cap GraphNodeIds }

Warned == { rg_warnings[i] : i \in 1..Len(rg_warnings) }

\* C29: WARN_GRAPH_NODE_UNREACHABLE is emitted for a node iff no path of
\* `next` edges leads from the entry to it; normalization fails only for an
\* entry or a target that is no node, whatever nodes are unreachable
C29_UnreachableWarned ==
    rg_outcome # "pending" =>
        /\ rg_outcome = "ok" <=>
              /\ rg_entry \in GraphNodeIds
              /\ \A n \in GraphNodeIds : Targets(rg_connectivity, n) \subseteq GraphNodeIds
        /\ rg_outcome = "ok" =>
              \A n \in GraphNodeIds : n \in Warned <=> n \notin Within[MaxGraphNodes]

\* a graph whose entry has two targets, the second reached only that way,
\* and an unreachable node that has an edge into the reachable part
C29_Witness ==
    /\ rg_outcome = "ok"
    /\ Len(rg_connectivity[rg_entry]) = 2
    /\ rg_connectivity[rg_entry][2] \notin Warned \cup {rg_entry}
    /\ \E u \in Warned : Targets(rg_connectivity, u) \cap Within[MaxGraphNodes] # {}

(***************************************************************************)
(* SpecInvoke: one call of Scheduler._invoke_component_spec for a node     *)
(* that has a component, step by step: the permission check, attempt()     *)
(* under RetryPolicy.execute, and the handler that calls on_error.         *)
(***************************************************************************)
MaxTries == 3

HookNames == {"before_execute", "after_execute", "on_error"}

InvokeConfigs ==
    { [kind |-> k[1], denied |-> k[2], provider_limit |-> p, node_limit |-> n,
       hooks |-> h, max_attempts |-> m] :
         k \in {<<"llm", FALSE>>, <<"tool", FALSE>>, <<"tool", TRUE>>},
         p \in BOOLEAN, n \in BOOLEAN, h \in SUBSET HookNames, m \in 0..MaxTries }

\* the outer `inputs_payload: Dict[str, Any] = {}` of line 668
EmptyInputs == [resolved |-> 0, modified |-> FALSE]

NoError == [at |-> "", call |-> 0, retryable |-> FALSE]

InitInvoke ==
    /\ events = <<>>
    /\ bus_sequence = [r \in RunIds |-> 0]
    /\ run_totals = [r \in RunIds |-> 0]
    /\ bus_permissions = [default_allow |-> {}, allow |-> <<>>]
    /\ per_run_tokens = NoLimit
    /\ bus_calls = 0
    /\ bus_raised = ""
    /\ NoExports
    /\ IdleParallel
    /\ IdleClose
    /\ IdleMask
    /\ IdleRate
    /\ IdleReach
    /\ IdleDiff
    /\ IdleLoop
    /\ IdleRun
    /\ hk_config \in InvokeConfigs
    /\ hk_pc = "start"
    /\ hk_log = <<>>
    /\ hk_attempt = 0
    /\ hk_calls = 0
    /\ hk_inputs = EmptyInputs
    /\ hk_outer_inputs = EmptyInputs
    /\ hk_contexts = 0
    /\ hk_exc = NoError
    /\ hk_hook = <<>>
    /\ hk_result = [status |-> "none", error |-> NoError, inputs |-> EmptyInputs]

Logged(step) == hk_log' = Append(hk_log, [step |-> step, call |-> hk_calls])

HookIdle == UNCHANGED <<emitVars, busVars, parVars, closeVars, maskVars, rateVars, reachVars, diffVars, lpVars, cfgVars, loopVars, invokeVars, runVars>>

\* lines 619-627 and 670-675: the permission check of a tool, then
\* policy.execute(spec.id, attempt) or attempt() begins
InvokeStart ==
    /\ hk_pc = "start"
    /\ IF hk_config.kind = "tool"
       THEN /\ hk_log' = Append(hk_log, [step |-> "permission", call |-> 0])
            /\ IF hk_config.denied
               THEN /\ hk_result' = [status |-> "raised",
                                     error |-> [at |-> "permission", call |-> 0,
                                                retryable |-> FALSE],
                                     inputs |-> EmptyInputs]
                    /\ hk_pc' = "done"
               ELSE hk_pc' = "attempt" /\ UNCHANGED hk_result
       ELSE hk_pc' = "attempt" /\ UNCHANGED <<hk_log, hk_result>>
    /\ UNCHANGED <<hk_config, hk_attempt, hk_calls, hk_inputs, hk_outer_inputs, hk_contexts,
                   hk_exc, hk_hook>>
    /\ HookIdle

\* variant of RateLimiterManager.acquire that asks the node's limiter first
RateLimiterManager_acquire_node_first(config) ==
    (IF config.node_limit THEN <<"acquire_node">> ELSE <<>>)
        \o (IF config.provider_limit THEN <<"acquire_provider">> ELSE <<>>)

\* RateLimiterManager.acquire, lines 134-150: the limiters asked, in order
RateLimiterManager_acquire(config) ==
    (IF config.provider_limit THEN <<"acquire_provider">> ELSE <<>>)
        \o (IF config.node_limit THEN <<"acquire_node">> ELSE <<>>)

\* attempt(), line 630: the operation is called and awaits the rate limits
AttemptAcquire ==
    /\ hk_pc = "attempt"
    /\ hk_calls' = hk_calls + 1
    /\ hk_log' = hk_log \o [i \in 1..Len(RateLimiterManager_acquire(hk_config)) |->
                               [step |-> RateLimiterManager_acquire(hk_config)[i], call |-> hk_calls + 1]]
    /\ hk_pc' = "inputs"
    /\ UNCHANGED <<hk_config, hk_attempt, hk_inputs, hk_outer_inputs, hk_contexts, hk_exc,
                   hk_hook, hk_result>>
    /\ HookIdle

\* attempt(), lines 634-645: the inputs are resolved into the local
\* inputs_payload and the context is built
PrepareInputs ==
    /\ hk_pc = "inputs"
    /\ hk_inputs' = [resolved |-> hk_calls, modified |-> FALSE]
    /\ hk_contexts' = hk_contexts + 1
    /\ Logged("inputs")
    /\ hk_pc' = IF "before_execute" \in hk_config.hooks THEN "before" ELSE "component"
    /\ UNCHANGED <<hk_config, hk_attempt, hk_calls, hk_outer_inputs, hk_exc, hk_hook, hk_result>>
    /\ HookIdle

\* a step of attempt() raises
Raises(step, retryable) ==
    /\ hk_exc' = [at |-> step, call |-> hk_calls, retryable |-> retryable]
    /\ hk_pc' = "failed"

\* attempt(), lines 649-652: before_execute returns None, returns modified
\* inputs, or raises
BeforeExecute ==
    /\ hk_pc = "before"
    /\ Logged("before_execute")
    /\ \/ /\ \E m \in BOOLEAN : hk_inputs' = [hk_inputs EXCEPT !.modified = m]
          /\ hk_pc' = "component"
          /\ UNCHANGED hk_exc
       \/ /\ \E r \in BOOLEAN : Raises("before_execute", r)
          /\ UNCHANGED hk_inputs
    /\ UNCHANGED <<hk_config, hk_attempt, hk_calls, hk_outer_inputs, hk_contexts, hk_hook,
                   hk_result>>
    /\ HookIdle

\* attempt(), lines 655-656: the component is called and returns or raises
CallComponent ==
    /\ hk_pc = "component"
    /\ Logged("component")
    /\ \/ /\ hk_pc' = IF "after_execute" \in hk_config.hooks THEN "after" ELSE "outputs"
          /\ UNCHANGED hk_exc
       \/ \E r \in BOOLEAN : Raises("component", r)
    /\ UNCHANGED <<hk_config, hk_attempt, hk_calls, hk_inputs, hk_outer_inputs, hk_contexts,
                   hk_hook, hk_result>>
    /\ HookIdle

\* attempt(), lines 659-662: after_execute returns or raises
AfterExecute ==
    /\ hk_pc = "after"
    /\ Logged("after_execute")
    /\ \/ hk_pc' = "outputs" /\ UNCHANGED hk_exc
       \/ \E r \in BOOLEAN : Raises("after_execute", r)
    /\ UNCHANGED <<hk_config, hk_attempt, hk_calls, hk_inputs, hk_outer_inputs, hk_contexts,
                   hk_hook, hk_result>>
    /\ HookIdle

\* attempt(), lines 664-665, and lines 673-675, 697-699: the outputs are
\* mapped, attempt() returns its inputs_payload, which becomes the outer one
PrepareOutputs ==
    /\ hk_pc = "outputs"
    /\ Logged("outputs")
    /\ hk_outer_inputs' = hk_inputs
    /\ hk_result' = [status |-> "returned", error |-> NoError, inputs |-> hk_inputs]
    /\ hk_pc' = "done"
    /\ UNCHANGED <<hk_config, hk_attempt, hk_calls, hk_inputs, hk_contexts, hk_exc, hk_hook>>
    /\ HookIdle

\* RetryPolicy.execute, lines 39-52: the except clause; without a policy the
\* error of attempt() reaches the handler of line 676 at once
AttemptRaises ==
    /\ hk_pc = "failed"
    /\ IF hk_config.max_attempts = 0
       THEN /\ hk_pc' = "handler"
            /\ UNCHANGED <<hk_attempt, hk_log>>
       ELSE /\ hk_attempt' = hk_attempt + 1
            /\ IF hk_attempt + 1 >= hk_config.max_attempts \/ ~hk_exc.retryable
               THEN hk_pc' = "handler" /\ UNCHANGED hk_log
               ELSE hk_pc' = "attempt" /\ Logged("retry.attempt")
    /\ UNCHANGED <<hk_config, hk_calls, hk_inputs, hk_outer_inputs, hk_contexts, hk_exc,
                   hk_hook, hk_result>>
    /\ HookIdle

\* variant of the handler in which an error raised by the hook replaces the
\* error being handled
after_on_error_hook_error(original, hook_raises) ==
    IF hook_raises THEN [at |-> "on_error", call |-> original.call, retryable |-> FALSE]
    ELSE original

\* lines 690-695: an Exception of the hook is passed over, then `raise`
\* re-raises the error being handled
after_on_error(original, hook_raises) == original

\* lines 676-695: the handler around policy.execute; on_error, if the
\* component has it, gets the error, the outer inputs_payload and a context
\* built for it, and returns or raises
OnError ==
    /\ hk_pc = "handler"
    /\ IF "on_error" \in hk_config.hooks
       THEN \E hook_raises \in BOOLEAN :
               /\ hk_contexts' = hk_contexts + 1
               /\ hk_hook' = Append(hk_hook, [error |-> hk_exc, inputs |-> hk_outer_inputs,
                                              context |-> hk_contexts + 1,
                                              raised |-> hook_raises])
               /\ Logged("on_error")
               /\ hk_result' = [status |-> "raised",
                                error |-> after_on_error(hk_exc, hook_raises),
                                inputs |-> EmptyInputs]
       ELSE /\ hk_result' = [status |-> "raised", error |-> hk_exc, inputs |-> EmptyInputs]
            /\ UNCHANGED <<hk_contexts, hk_hook, hk_log>>
    /\ hk_pc' = "done"
    /\ UNCHANGED <<hk_config, hk_attempt, hk_calls, hk_inputs, hk_outer_inputs, hk_exc>>
    /\ HookIdle

NextInvoke ==
    \/ InvokeStart
    \/ AttemptAcquire
    \/ PrepareInputs
    \/ BeforeExecute
    \/ CallComponent
    \/ AfterExecute
    \/ PrepareOutputs
    \/ AttemptRaises
    \/ OnError

SpecInvoke == InitInvoke /\ [][NextInvoke]_vars

\* C32: on_error never absorbs a failure: when the invocation is over after
\* a failed attempt that was not retried, the error of that attempt is what
\* the invocation raises, whether the hook returned or raised, and on_error
\* ran once for it
C32_OnErrorNeverAbsorbs ==
    /\ Len(hk_hook) <= 1
    /\ (hk_pc = "done" /\ hk_exc # NoError /\ hk_result.status # "returned") =>
          /\ hk_result.status = "raised"
          /\ hk_result.error = hk_exc
          /\ "on_error" \in hk_config.hooks =>
                /\ Len(hk_hook) = 1
                /\ hk_hook[1].error = hk_exc
    /\ (hk_pc = "done" /\ hk_result.status = "returned") => hk_hook = <<>>

\* an invocation whose on_error hook itself raised, after a retry
C32_Witness ==
    /\ hk_pc = "done"
    /\ Len(hk_hook) = 1
    /\ hk_hook[1].raised
    /\ hk_calls = 2
    /\ hk_result.error.at = "component"

\* C33: on_error is called with the inputs resolved for the failing
\* invocation, as passed to the component, and with a newly built context
C33_OnErrorGetsInputs ==
    \A i \in 1..Len(hk_hook) :
        /\ hk_hook[i].inputs = hk_inputs
        /\ hk_hook[i].context = hk_contexts

\* the steps of one attempt in their order
AttemptOrder ==
    <<"acquire_provider", "acquire_node", "inputs", "before_execute", "component",
      "after_execute", "outputs">>

Rank(step) == CHOOSE i \in 1..Len(AttemptOrder) : AttemptOrder[i] = step

\* the steps the configuration has: a limiter or a hook may be absent
Present(step) ==
    CASE step = "acquire_provider" -> hk_config.provider_limit
      [] step = "acquire_node" -> hk_config.node_limit
      [] step = "before_execute" -> "before_execute" \in hk_config.hooks
      [] step = "after_execute" -> "after_execute" \in hk_config.hooks
      [] OTHER -> TRUE

StepsOf(call) ==
    SelectSeq(hk_log, LAMBDA e : e.call = call /\ e.step \notin {"retry.attempt", "on_error"})

\* C34: every attempt performs provider acquire, node acquire, input
\* resolution, before_execute, the component call, after_execute and output
\* mapping in this order, leaving out only what the configuration lacks and
\* what follows a failure; a retried attempt acquires the rate limits again;
\* the permission check is made once, before the first attempt
C34_AttemptOrder ==
    /\ \A i \in 1..Len(hk_log) :
          hk_log[i].step = "permission" => i = 1 /\ hk_config.kind = "tool"
    /\ \A c \in 1..hk_calls :
          LET steps == StepsOf(c)
          IN  /\ \A i \in 1..Len(steps) :
                    /\ Present(steps[i].step)
                    /\ \A j \in 1..Len(AttemptOrder) :
                          (j < Rank(steps[i].step) /\ Present(AttemptOrder[j])) =>
                              \E k \in 1..(i - 1) : steps[k].step = AttemptOrder[j]
                    /\ \A k \in 1..(i - 1) : Rank(steps[k].step) < Rank(steps[i].step)
              /\ (c < hk_calls \/ hk_pc \notin {"attempt", "inputs"}) =>
                    /\ hk_config.provider_limit =>
                          Len(steps) >= 1 /\ steps[1].step = "acquire_provider"
                    /\ hk_config.node_limit =>
                          \E i \in 1..Len(steps) : steps[i].step = "acquire_node"
    /\ (hk_pc = "done" /\ hk_result.status = "returned") =>
          Len(StepsOf(hk_calls))
             = Cardinality({ j \in 1..Len(AttemptOrder) : Present(AttemptOrder[j]) })

\* a tool node with both limiters and both hooks whose first attempt failed
\* in the component and whose second attempt returned
C34_Witness ==
    /\ hk_pc = "done"
    /\ hk_result.status = "returned"
    /\ hk_calls = 2
    /\ hk_config.kind = "tool"
    /\ hk_config.provider_limit
    /\ hk_config.node_limit
    /\ {"before_execute", "after_execute"} \subseteq hk_config.hooks
    /\ \E i \in 1..Len(hk_log) : hk_log[i].step = "retry.attempt"

(***************************************************************************)
(* SpecDiff: two runs emitting through one EventBus whose MaskingEngine    *)
(* has diff_fields, next to a bus that receives the emits of RunId only.   *)
(* A bus is [bus_sequence, run_totals, previous]; `previous` is the        *)
(* engine's _previous: run_id -> path -> value.                            *)
(***************************************************************************)
\* largest number of emits on the shared bus
MaxDiffEmits == 4

\* the configured paths, as their parts
DiffPaths == {<<"a">>, <<"a", "b">>}

DiffScalars == {Scalar("x"), Scalar("y")}

\* the payload keys next to run_id and sequence: "a" may carry a scalar or a
\* mapping with the key "b"
DiffPayloads ==
    UNION { [K -> DiffScalars \cup { Mapping("b" :> v) : v \in DiffScalars }] : K \in SUBSET {"a"} }

DiffConfigs ==
    { [fields |-> f, diff_fields |-> d, limit |-> l] :
         f \in {<<>>} \cup { <<p>> : p \in DiffPaths },
         d \in UNION { [1..n -> DiffPaths] : n \in 1..2 },
         l \in {2} }

EmptyBus == [bus_sequence |-> [r \in RunIds |-> 0],
             run_totals |-> [r \in RunIds |-> 0],
             previous |-> [r \in RunIds |-> [p \in DiffPaths |-> None]]]

NoEmit == [run_id |-> "", event |-> "", raised |-> "", sequence |-> NoSequence,
           raw |-> <<>>, delivered |-> <<>>]

InitDiff ==
    /\ events = <<>>
    /\ bus_sequence = [r \in RunIds |-> 0]
    /\ run_totals = [r \in RunIds |-> 0]
    /\ bus_permissions = [default_allow |-> {}, allow |-> <<>>]
    /\ bus_calls = 0
    /\ bus_raised = ""
    /\ NoExports
    /\ IdleParallel
    /\ IdleClose
    /\ IdleMask
    /\ IdleRate
    /\ IdleReach
    /\ IdleInvoke
    /\ IdleLoop
    /\ IdleRun
    /\ df_config \in DiffConfigs
    /\ per_run_tokens = df_config.limit
    /\ df_previous = EmptyBus.previous
    /\ df_solo = EmptyBus
    /\ df_seen = [r \in RunIds |-> [p \in DiffPaths |-> None]]
    /\ df_last = NoEmit
    /\ df_solo_last = NoEmit

\* _get_path on already split parts
RECURSIVE get_path(_, _)
get_path(data, parts) ==
    IF parts = <<>> THEN Mapping(data)
    ELSE IF parts[1] \notin DOMAIN data THEN None
    ELSE IF Len(parts) = 1 THEN data[parts[1]]
    ELSE IF IsMapping(data[parts[1]]) THEN get_path(data[parts[1]].d, Tail(parts))
    ELSE None

IsPrefix(p, q) == Len(p) <= Len(q) /\ SubSeq(q, 1, Len(p)) = p

\* one pass of the loop of lines 40-47 over a diff field.  The loop state is
\* [masked, prev, alias]: prev_for_run holds the very object that sits in
\* `masked`, so for the paths in `alias` an assignment below the path
\* changes the stored value too
diff_step(st, parts, stored_after_masking) ==
    LET current_value == get_path(st.masked, parts)
        previous_value == st.prev[parts]
        differs == previous_value # None /\ previous_value # current_value
        after == IF differs THEN set_path(st.masked, parts, mask_value) ELSE st.masked
        live == IF differs THEN { q \in st.alias : ~IsPrefix(parts, q) } ELSE st.alias
        shared == [q \in DiffPaths |-> IF q \in live THEN get_path(after, q) ELSE st.prev[q]]
    IN  IF current_value = None THEN st
        ELSE [masked |-> after,
              prev |-> [shared EXCEPT ![parts] = IF stored_after_masking
                                                 THEN get_path(after, parts)
                                                 ELSE current_value],
              alias |-> IF IsMapping(current_value) /\ ~differs
                        THEN live \cup {parts} ELSE live \ {parts}]

\* variant of the engine that remembers the value it delivered
mask_diff_stores_delivered(config, prev_for_run, payload) ==
    LET D[i \in 0..Len(config.diff_fields)] ==
            IF i = 0
            THEN [masked |-> mask(config.fields, payload), prev |-> prev_for_run, alias |-> {}]
            ELSE diff_step(D[i - 1], config.diff_fields[i], TRUE)
    IN  D[Len(config.diff_fields)]

\* MaskingEngine.mask, lines 33-48, for a payload with a run_id: the masked
\* payload and the new prev_for_run
mask_diff(config, prev_for_run, payload) ==
    LET D[i \in 0..Len(config.diff_fields)] ==
            IF i = 0
            THEN [masked |-> mask(config.fields, payload), prev |-> prev_for_run, alias |-> {}]
            ELSE diff_step(D[i - 1], config.diff_fields[i], FALSE)
    IN  D[Len(config.diff_fields)]

\* variant of the bus that numbers the events of all runs with one counter
sequence_of_bus(counters, run_id) ==
    LET Sum[S \in SUBSET RunIds] ==
            IF S = {} THEN 0
            ELSE LET r == CHOOSE r \in S : TRUE IN counters[r] + Sum[S \ {r}]
    IN  [r \in RunIds |-> Sum[RunIds]]

\* self._sequence as EventBus.emit reads it, line 57
sequence_of_run(counters, run_id) == counters

\* EventBus.emit(event, run_id=..., **data) on a bus: the bus afterwards and
\* what the emit did
emit_on(bus, config, payload, data) ==
    LET run_id == payload.run_id
        em == EventBus_emit([events |-> <<>>,
                             bus_sequence |-> sequence_of_run(bus.bus_sequence, run_id),
                             run_totals |-> bus.run_totals, raised |-> ""],
                            bus_permissions, config.limit, payload)
        counted == [bus EXCEPT !.bus_sequence[run_id] = @ + 1,
                               !.run_totals = em.run_totals]
        m == mask_diff(config, bus.previous[run_id], data)
    IN  IF em.raised # ""
        THEN [bus |-> counted,
              did |-> [run_id |-> run_id, event |-> payload.event, raised |-> em.raised,
                       sequence |-> NoSequence, raw |-> data, delivered |-> <<>>]]
        ELSE [bus |-> [counted EXCEPT !.previous[run_id] = m.prev],
              did |-> [run_id |-> run_id, event |-> payload.event, raised |-> "",
                       sequence |-> em.events[1].sequence, raw |-> data,
                       delivered |-> m.masked]]

\* a run emits an event through the shared bus; the emits of RunId also go
\* to the bus that only RunId uses
DiffEmit ==
    /\ \E run_id \in RunIds, ev \in {"node.finish", "llm.call"}, tokens \in 1..2,
          data \in DiffPayloads :
          /\ bus_sequence["run-1"] + bus_sequence["run-2"] < MaxDiffEmits
          /\ ev = "node.finish" => tokens = 1
          /\ ev = "llm.call" => data = <<>>
          /\ LET payload == [Payload(ev, "n") EXCEPT !.run_id = run_id,
                               !.tokens_in = IF ev = "llm.call" THEN tokens ELSE 0]
                 shared == emit_on([bus_sequence |-> bus_sequence, run_totals |-> run_totals,
                                    previous |-> df_previous], df_config, payload, data)
                 solo == emit_on(df_solo, df_config, payload, data)
             IN  /\ bus_sequence' = shared.bus.bus_sequence
                 /\ run_totals' = shared.bus.run_totals
                 /\ df_previous' = shared.bus.previous
                 /\ df_last' = shared.did
                 /\ df_seen' = IF shared.did.raised # "" THEN df_seen
                               ELSE [df_seen EXCEPT ![run_id] =
                                       [p \in DiffPaths |->
                                           IF get_path(data, p) # None
                                           THEN get_path(data, p) ELSE @[p]]]
                 /\ df_solo' = IF run_id = RunId THEN solo.bus ELSE df_solo
                 /\ df_solo_last' = IF run_id = RunId THEN solo.did ELSE NoEmit
    /\ UNCHANGED <<events, df_config>>
    /\ UNCHANGED <<busVars, parVars, closeVars, maskVars, rateVars, reachVars, hookVars, lpVars, cfgVars, loopVars, invokeVars, runVars>>

NextDiff == DiffEmit

SpecDiff == InitDiff /\ [][NextDiff]_vars

\* what C36 says of the diff path p for the event of this step: with v the
\* value the event carries at p and w the value the previous delivered event
\* of the same run carried there, the event shows the mask at p where w
\* exists and differs from v, and v itself otherwise
DiffRule(p) ==
    LET v == get_path(df_last'.raw, p)
        w == df_seen[df_last'.run_id][p]
    IN  (df_last'.raised = "" /\ v # None) =>
            get_path(df_last'.delivered, p)
                = IF w # None /\ w # v THEN Scalar(mask_value) ELSE v

DiffFieldSet == { df_config.diff_fields[i] : i \in 1..Len(df_config.diff_fields) }

\* p is configured once, and no other configured path lies on it, above it
\* or below it
Apart(p) ==
    /\ Cardinality({ i \in 1..Len(df_config.diff_fields) : df_config.diff_fields[i] = p }) = 1
    /\ \A q \in DiffFieldSet \ {p} : ~IsPrefix(p, q) /\ ~IsPrefix(q, p)
    /\ \A i \in 1..Len(df_config.fields) :
          ~IsPrefix(p, df_config.fields[i]) /\ ~IsPrefix(df_config.fields[i], p)

\* C36 (as stated): for every diff_fields path and every run, the first
\* event carrying a value at the path is delivered unmasked, and a later one
\* is masked at the path iff its value differs from the unmasked value of
\* the previous event of the run that had the path
C36_Stated == [][\A p \in DiffFieldSet : DiffRule(p)]_vars

\* C36 (amended): the same, for a diff_fields path that is configured once
\* and overlaps no other path of fields or diff_fields
C36_DiffAgainstPreviousValue == [][\A p \in DiffFieldSet : Apart(p) => DiffRule(p)]_vars

\* the third event of a run is masked at the only diff path, the second was
\* not, and the other run has emitted the value that this event carries
C36_Witness ==
    /\ df_config.diff_fields = << <<"a">> >>
    /\ df_config.fields = <<>>
    /\ df_last.raised = ""
    /\ df_last.sequence = 2
    /\ get_path(df_last.delivered, <<"a">>) = Scalar(mask_value)
    /\ df_seen[CHOOSE r \in RunIds : r # df_last.run_id][<<"a">>] = get_path(df_last.raw, <<"a">>)

\* C31: whatever the other run emits on the shared bus and in whatever
\* interleaving, each emit of RunId gets the sequence number, the cost-limit
\* decision and the masked payload it gets on a bus that only RunId uses
C31_RunIsolated == df_last.run_id = RunId => df_last = df_solo_last

\* the other run has spent tokens and emitted a value at a diff path, then
\* RunId had its second llm.call rejected by the cost limit
C31_Witness ==
    /\ df_last.run_id = RunId
    /\ df_last.raised = "ERR_COST_LIMIT_EXCEEDED"
    /\ bus_sequence[RunId] = 2
    /\ run_totals[RunId] > 0
    /\ \E r \in RunIds \ {RunId} :
          /\ bus_sequence[r] = 2
          /\ run_totals[r] > 0
          /\ \E p \in DiffFieldSet : df_seen[r][p] # None

(***************************************************************************)
(* SpecLoop: runtime/scheduler.py, the main loop of _execute on a graph of *)
(* up to MaxGraphNodes nodes whose components all return.  The entrypoint  *)
(* is node 1; one node may be a router, whose targets are its routes.      *)
(***************************************************************************)
InitLoop ==
    /\ events = <<>>
    /\ bus_sequence = [r \in RunIds |-> 0]
    /\ run_totals = [r \in RunIds |-> 0]
    /\ bus_permissions = [default_allow |-> {}, allow |-> <<>>]
    /\ per_run_tokens = NoLimit
    /\ bus_calls = 0
    /\ bus_raised = ""
    /\ NoExports
    /\ IdleParallel
    /\ IdleClose
    /\ IdleMask
    /\ IdleRate
    /\ IdleReach
    /\ IdleInvoke
    /\ IdleDiff
    /\ IdleRun
    /\ lp_next \in [GraphNodeIds -> NextTargets]
    /\ lp_router \in 0..MaxGraphNodes
    /\ lp_pending = <<1>>
    /\ lp_visited = {}
    /\ lp_states = {}
    /\ lp_order = <<>>
    /\ lp_nulls = {}
    /\ lp_finish = ""

\* the nodes that list n as a successor
Predecessors(n) == { m \in GraphNodeIds : n \in Targets(lp_next, m) }

\* _resolve_expression, lines 732-741, for "node.<m>.<field>": TRUE when
\* the expression resolves to None because m has no entry in node_states
resolves_to_null(states, m) == m \notin states

\* variant of the loop head that leaves a visited node at the head of pending
pop_visited_kept(queue) == queue

\* line 192 and 193-194: pending.pop(0) for a node that is in visited
pop_visited(queue) == Tail(queue)

\* lines 192-194: the head of pending was executed before
SkipVisited ==
    /\ lp_finish = ""
    /\ lp_pending # <<>>
    /\ Head(lp_pending) \in lp_visited
    /\ lp_pending' = pop_visited(lp_pending)
    /\ UNCHANGED <<lp_next, lp_router, lp_visited, lp_states, lp_order, lp_nulls, lp_finish>>
    /\ UNCHANGED <<emitVars, busVars, parVars, closeVars, maskVars, rateVars, reachVars, hookVars, diffVars, cfgVars, loopVars, invokeVars, runVars>>

\* lines 192-224: one pass of the loop for a node that was not executed
\* before.  _run_node resolves the node's inputs, the component returns,
\* the node's entry is stored, and _select_next gives next_nodes, or for a
\* router the target of the route it chose, or raises ERR_ROUTER_NO_MATCH
RunLoopNode ==
    /\ lp_finish = ""
    /\ lp_pending # <<>>
    /\ Head(lp_pending) \notin lp_visited
    /\ LET node_id == Head(lp_pending)
           rest == Tail(lp_pending)
       IN  /\ lp_order' = Append(lp_order, node_id)
           /\ lp_nulls' = lp_nulls \cup { <<node_id, m>> : m \in { x \in Predecessors(node_id) :
                                                                   resolves_to_null(lp_states, x) } }
           /\ lp_states' = lp_states \cup {node_id}
           /\ \E chosen \in IF node_id = lp_router
                            THEN {<<>>} \cup { <<t>> : t \in Targets(lp_next, node_id) }
                            ELSE {lp_next[node_id]} :
                 IF node_id = lp_router /\ chosen = <<>>
                 THEN /\ lp_finish' = "ERR_ROUTER_NO_MATCH"
                      /\ UNCHANGED <<lp_visited, lp_pending>>
                 ELSE /\ lp_visited' = lp_visited \cup {node_id}
                      /\ IF \E i \in 1..Len(chosen) : chosen[i] \notin GraphNodeIds
                         THEN /\ lp_finish' = "ERR_EDGE_ENDPOINT_INVALID"
                              /\ lp_pending' = rest
                         ELSE /\ lp_finish' = ""
                              /\ lp_pending' = rest \o chosen
    /\ UNCHANGED <<lp_next, lp_router>>
    /\ UNCHANGED <<emitVars, busVars, parVars, closeVars, maskVars, rateVars, reachVars, hookVars, diffVars, cfgVars, loopVars, invokeVars, runVars>>

\* lines 226-227 and run(), lines 120-125: pending is empty, _execute
\* returns and graph.finish is emitted with status success
LoopReturns ==
    /\ lp_finish = ""
    /\ lp_pending = <<>>
    /\ lp_finish' = "success"
    /\ UNCHANGED <<lp_next, lp_router, lp_pending, lp_visited, lp_states, lp_order, lp_nulls>>
    /\ UNCHANGED <<emitVars, busVars, parVars, closeVars, maskVars, rateVars, reachVars, hookVars, diffVars, cfgVars, loopVars, invokeVars, runVars>>

NextLoop ==
    \/ SkipVisited
    \/ RunLoopNode
    \/ LoopReturns

SpecLoop == InitLoop /\ [][NextLoop]_vars

\* the event loop runs the coroutine of _execute until it returns or raises
SpecLoopFair == SpecLoop /\ WF_vars(NextLoop)

Executed == { lp_order[i] : i \in 1..Len(lp_order) }

\* the nodes reached from n by one or more edges, in k or fewer steps
After[n \in GraphNodeIds, k \in 1..MaxGraphNodes] ==
    IF k = 1 THEN Targets(lp_next, n) \cap GraphNodeIds
    ELSE After[n, k - 1]
           \cup UNION { Targets(lp_next, m) \cap GraphNodeIds : m \in After[n, k - 1] }

Acyclic == \A n \in GraphNodeIds : n \notin After[n, MaxGraphNodes]

\* C38: in a run over a graph without cycles, when the main loop starts a
\* node every executed node that lists it as a successor has completed, so
\* no expression node.<id>.<field> on such a predecessor resolved to null
C38_PredecessorsCompleted ==
    (lp_finish = "success" /\ Acyclic) =>
        \A q \in lp_nulls : q[2] \notin Executed

\* C39: on every graph, cycles included, the loop ends: no node is executed
\* twice, graph.finish is reached, and unless a target was undefined or a
\* router matched no route the loop ended with pending empty and every node
\* reachable by the chosen edges executed
C39_LoopTerminates ==
    /\ <>(lp_finish # "")
    /\ [](/\ Len(lp_order) = Cardinality(Executed)
          /\ Executed = lp_states
          /\ lp_finish = "success" =>
                /\ lp_pending = <<>>
                /\ 1 \in Executed
                /\ lp_visited = Executed
          /\ lp_finish = "ERR_EDGE_ENDPOINT_INVALID" =>
                \E n \in Executed : Targets(lp_next, n) \ GraphNodeIds # {}
          /\ lp_finish = "ERR_ROUTER_NO_MATCH" => lp_router \in Executed)

\* a run over a graph in which every node lies on a cycle executed every
\* node once, skipped a node it met again and finished
C39_Witness ==
    /\ lp_finish = "success"
    /\ \A n \in GraphNodeIds : n \in After[n, MaxGraphNodes]
    /\ Len(lp_order) = MaxGraphNodes
    /\ lp_router # 0

====
